---- MODULE Spec2Model ----
(***************************************************************************)
(* Model of the CLO/PLO extraction-and-aggregation engine.                 *)
(*                                                                         *)
(*   src/clo_plo_calculator.py  scoring functions                          *)
(*   src/data.py                identifier normalisation and extraction    *)
(*   src/interface.py           _process_calculation_results (call order)  *)
(*                                                                         *)
(* Conventions.                                                            *)
(*   Text     a Python str is a string; a character is a string of        *)
(*            length 1.                                                    *)
(*   Null     a missing cell (None / NaN) is the string "<null>", whose    *)
(*            angle brackets no text of the model alphabet holds.          *)
(*   Number   a Python float is an exact fraction [n, d] in lowest terms   *)
(*            and round(x, 2) is round-half-even of the exact value, so    *)
(*            binary representation error is abstracted away.              *)
(*   dict     a Python dict is a TLA+ function (sums are exact, hence      *)
(*            independent of iteration order); where a later entry can     *)
(*            replace an earlier one, the dict is built entry by entry in  *)
(*            the order of the code's loop.                                *)
(*                                                                         *)
(* Specifications.                                                         *)
(*   Spec        the whole engine on drawn cleaned sheets                  *)
(*   SpecScore   the scoring functions on drawn assessment tables          *)
(*   SpecPlo     calculate_plo_scores on drawn CLO scores and mappings     *)
(*   SpecLetter  get_letter_grade on drawn percentages                     *)
(*   SpecId      validate_and_format_student_id on drawn identifiers       *)
(***************************************************************************)
EXTENDS Integers, Sequences, FiniteSets, TLC

VARIABLES
    pc,               \* position in the flow of the specification at hand
    clos,             \* data_dict["clos"]: defined CLO ids -> definition
    clo_to_plo,       \* data_dict["clo_to_plo"]
    clo_assessments,  \* data_dict["clo_assessments"]
    student_scores,   \* data_dict["student_scores"]
    clo_scores,       \* result of calculate_clo_scores
    plo_scores,       \* outcome of calculate_plo_scores
    grades,           \* result of calculate_grades
    clo_weights,      \* result of get_total_clo_weights
    percentage,       \* argument of get_letter_grade
    letter,           \* result of get_letter_grade
    student_id_raw,   \* argument of validate_and_format_student_id
    edits,            \* how many symbols were added to the drawn identifier
    id_result,        \* outcome of validate_and_format_student_id
    df,               \* the cleaned sheet: rows of cells (text or Null)
    extraction,       \* outcome of extract_clo_plo_data on df
    ids_raw,          \* argument of validate_all_student_ids
    ids_result,       \* outcome of validate_all_student_ids
    run,              \* which run of the engine on df is under way (1, 2)
    first_run,        \* what the first run on df ended with
    raw_grid,         \* the sheet as loaded: argument of the cleaning
    cleaned_grid,     \* the cleaning of raw_grid
    cleaned_twice,    \* the cleaning of cleaned_grid
    filename,         \* argument of validate_filename_format
    file_result,      \* outcome of validate_filename_format
    file_paths,       \* the files handed to DataProcessor / BatchDataProcessor
    script_exists,    \* os.path.exists(script_path)
    file_index,       \* how many files BatchDataProcessor.run has gone through
    successful_files, \* BatchDataProcessor.run: names of the files that succeeded
    failed_files,     \* BatchDataProcessor.run: names of the files that failed
    results_summary,  \* BatchDataProcessor.run: file name -> results
    file_progress,    \* texts emitted through file_progress, in order
    file_completed,   \* (file_name, success, message) emitted through file_completed
    progress,         \* values emitted through progress, in order
    finished,         \* what was emitted through finished, in order
    dialog,           \* the dialog the window showed last
    status,           \* the status line of the window
    data_rows,        \* what find_data_rows returned for df
    processing_mode,      \* HabibUniversityApp.processing_mode
    current_file_path,    \* HabibUniversityApp.current_file_path
    current_file_paths,   \* HabibUniversityApp.current_file_paths
    browse_file_btn,      \* the browse-file button is enabled
    browse_folder_btn,    \* the browse-folder button is enabled
    process_btn,          \* the process button is enabled
    file_processor,       \* the running FileProcessor's file_path, or Null
    batch_file_processor, \* the running BatchFileProcessor's folder_path, or Null
    data_processor,       \* the running DataProcessor's file_path, or Null
    batch_data_processor  \* the running BatchDataProcessor's file_paths, or Null

calc_vars == <<clos, clo_to_plo, clo_assessments, student_scores,
               clo_scores, plo_scores, grades, clo_weights>>

letter_vars == <<percentage, letter>>

id_vars == <<student_id_raw, edits, id_result>>

sheet_vars == <<df, extraction>>

ids_vars == <<ids_raw, ids_result>>

\* The variables of the flows other than scoring, letters, identifiers and
\* sheets.
twice_vars == <<run, first_run>>

clean_vars == <<raw_grid, cleaned_grid, cleaned_twice>>

file_vars == <<filename, file_result>>

\* The variables of the file-name check and of the user-interface flows.
flow_vars == <<file_paths, script_exists, file_index, successful_files,
               failed_files, results_summary, file_progress, file_completed,
               progress, finished, dialog, status>>

ui_vars == <<file_vars, flow_vars>>

locate_vars == <<data_rows>>

\* The fields and buttons of the main window.
window_vars == <<processing_mode, current_file_path, current_file_paths,
                 browse_file_btn, browse_folder_btn, process_btn,
                 file_processor, batch_file_processor, data_processor,
                 batch_data_processor>>

aux_vars == <<ids_vars, twice_vars, clean_vars, ui_vars, locate_vars, window_vars>>

vars == <<pc, calc_vars, letter_vars, id_vars, sheet_vars, aux_vars>>

(***************************************************************************)
(* Text                                                                    *)
(***************************************************************************)
Null == "<null>"

\* s[i] of a Python str, as a one-character string.
Ch(s, i) == SubSeq(s, i, i)

Digits == "0123456789"

IsDigit(c) == \E i \in 1..Len(Digits) : Ch(Digits, i) = c

DigitVal(c) == (CHOOSE i \in 1..Len(Digits) : Ch(Digits, i) = c) - 1

\* str.strip() for the whitespace of the model alphabet (the blank).
RECURSIVE LStrip(_)
LStrip(s) == IF s # "" /\ Head(s) = " " THEN LStrip(Tail(s)) ELSE s

RECURSIVE RStrip(_)
RStrip(s) ==
    IF s # "" /\ Ch(s, Len(s)) = " " THEN RStrip(SubSeq(s, 1, Len(s) - 1)) ELSE s

Strip(s) == RStrip(LStrip(s))

\* The value of a string of digits, read as an integer.
RECURSIVE DigitsVal(_)
DigitsVal(s) ==
    IF s = "" THEN 0
    ELSE 10 * DigitsVal(SubSeq(s, 1, Len(s) - 1)) + DigitVal(Ch(s, Len(s)))

AllDigits(s) == \A i \in 1..Len(s) : IsDigit(Ch(s, i))

Letters == "abcdefghijklmnopqrstuvwxyz"

Capitals == "ABCDEFGHIJKLMNOPQRSTUVWXYZ"

IsLetter(c) == \E i \in 1..Len(Letters) : Ch(Letters, i) = c

\* str.lower()
LowerCh(c) ==
    IF \E i \in 1..Len(Capitals) : Ch(Capitals, i) = c
    THEN Ch(Letters, CHOOSE i \in 1..Len(Capitals) : Ch(Capitals, i) = c)
    ELSE c

RECURSIVE Lower(_)
Lower(s) == IF s = "" THEN "" ELSE LowerCh(Head(s)) \o Lower(Tail(s))

\* sub in s
Contains(s, sub) ==
    \E i \in 1..(Len(s) - Len(sub) + 1) : SubSeq(s, i, i + Len(sub) - 1) = sub

\* s.endswith(sub)
EndsWith(s, sub) ==
    Len(s) >= Len(sub) /\ SubSeq(s, Len(s) - Len(sub) + 1, Len(s)) = sub

\* s.split(c)[0]: the part of s before the first c.
RECURSIVE BeforeFirst(_, _)
BeforeFirst(s, c) ==
    IF s = "" \/ Head(s) = c THEN "" ELSE Head(s) \o BeforeFirst(Tail(s), c)

\* The characters of s that occur in the string allowed, in order:
\* re.sub(r'[^...]', '', s) and ''.join(re.findall(r'[...]', s)).
RECURSIVE Keep(_, _)
Keep(s, allowed) ==
    IF s = "" THEN ""
    ELSE (IF \E i \in 1..Len(allowed) : Ch(allowed, i) = Head(s)
          THEN Head(s) ELSE "")
         \o Keep(Tail(s), allowed)

(***************************************************************************)
(* Numbers: exact fractions [n |-> numerator, d |-> denominator], d > 0,   *)
(* in lowest terms.                                                        *)
(***************************************************************************)
Abs(i) == IF i < 0 THEN 0 - i ELSE i

RECURSIVE Gcd(_, _)
Gcd(a, b) == IF b = 0 THEN a ELSE Gcd(b, a % b)

\* The value of a division by zero (Python raises ZeroDivisionError): it is
\* absorbing, so an expression that divides by zero anywhere evaluates to it.
ZeroDivisionError == [n |-> 0, d |-> 0]

\* The fraction n/d in lowest terms with a positive denominator.
Rat(n, d) ==
    IF d = 0 THEN ZeroDivisionError
    ELSE LET g == Gcd(Abs(n), Abs(d))
             s == IF d < 0 THEN 0 - 1 ELSE 1
         IN  [n |-> (s * n) \div g, d |-> (s * d) \div g]

Zero == [n |-> 0, d |-> 1]

Whole(i) == [n |-> i, d |-> 1]

RatAdd(x, y) == Rat(x.n * y.d + y.n * x.d, x.d * y.d)

RatMul(x, y) == Rat(x.n * y.n, x.d * y.d)

RatDiv(x, y) == Rat(x.n * y.d, x.d * y.n)

\* x >= y for two numbers.
RatGeq(x, y) == x.n * y.d >= y.n * x.d

RECURSIVE Pow10(_)
Pow10(k) == IF k = 0 THEN 1 ELSE 10 * Pow10(k - 1)

\* round(n / d) for integers n and d > 0, ties to the even neighbour.
RoundHalfEven(n, d) ==
    LET q == n \div d
        r == n % d
    IN  IF 2 * r < d THEN q
        ELSE IF 2 * r > d THEN q + 1
        ELSE IF q % 2 = 0 THEN q ELSE q + 1

\* Python round(x, 2) on the exact value of x.
round2(x) ==
    IF x.d = 0 THEN ZeroDivisionError
    ELSE Rat(RoundHalfEven(100 * x.n, x.d), 100)

\* Python float(str): surrounding blanks ignored, an optional sign, digits
\* with at most one point and at least one digit; [ok |-> FALSE] is
\* ValueError.
float_unsigned(s) ==
    LET dots == {i \in 1..Len(s) : Ch(s, i) = "."}
    IN  IF dots = {}
        THEN IF s # "" /\ AllDigits(s)
             THEN [ok |-> TRUE, val |-> Whole(DigitsVal(s))]
             ELSE [ok |-> FALSE]
        ELSE LET p    == CHOOSE i \in dots : TRUE
                 ip   == SubSeq(s, 1, p - 1)
                 fp   == SubSeq(s, p + 1, Len(s))
             IN  IF Cardinality(dots) = 1 /\ AllDigits(ip) /\ AllDigits(fp)
                    /\ Len(ip) + Len(fp) > 0
                 THEN [ok |-> TRUE,
                       val |-> Rat(DigitsVal(ip) * Pow10(Len(fp)) + DigitsVal(fp),
                                   Pow10(Len(fp)))]
                 ELSE [ok |-> FALSE]

float_of_str(text) ==
    LET s == Strip(text)
    IN  IF s # "" /\ Head(s) = "-"
        THEN LET r == float_unsigned(Tail(s))
             IN  IF r.ok THEN [ok |-> TRUE, val |-> Rat(0 - r.val.n, r.val.d)]
                 ELSE r
        ELSE IF s # "" /\ Head(s) = "+" THEN float_unsigned(Tail(s))
        ELSE float_unsigned(s)

(***************************************************************************)
(* Scoring engine: src/clo_plo_calculator.py                               *)
(***************************************************************************)
\* float(student_scores[student_id].get(module, 0)) with ValueError -> 0.0
score_of(scores, module) ==
    IF module \in DOMAIN scores
    THEN LET r == float_of_str(scores[module])
         IN  IF r.ok THEN r.val ELSE Zero
    ELSE Zero

\* Mutant of normalized: the weight is not applied.
normalized_unweighted(item, score) ==
    IF item.max_score # Zero THEN RatDiv(score, item.max_score) ELSE Zero

\* calculate_clo_scores, the loop body's contribution of one item.
normalized(item, score) ==
    IF item.max_score # Zero
    THEN RatMul(RatDiv(score, item.max_score), item.weight)
    ELSE Zero

\* sum(item['weight'] for item in modules)
RECURSIVE sum_weights(_)
sum_weights(modules) ==
    IF modules = <<>> THEN Zero
    ELSE RatAdd(sum_weights(SubSeq(modules, 1, Len(modules) - 1)),
                modules[Len(modules)].weight)

\* weighted_score after the loop over modules, items taken in list order.
RECURSIVE weighted_score(_, _)
weighted_score(modules, scores) ==
    IF modules = <<>> THEN Zero
    ELSE LET item == modules[Len(modules)]
         IN  RatAdd(weighted_score(SubSeq(modules, 1, Len(modules) - 1), scores),
                    normalized(item, score_of(scores, item.module)))

\* Mutant of clo_final_score: the total weight is divided by unguarded.
clo_final_score_unguarded(modules, scores) ==
    round2(RatMul(RatDiv(weighted_score(modules, scores), sum_weights(modules)),
                  Whole(100)))

\* final_score of one CLO for one student.
clo_final_score(modules, scores) ==
    LET total_weight == sum_weights(modules)
    IN  IF total_weight # Zero
        THEN round2(RatMul(RatDiv(weighted_score(modules, scores), total_weight),
                           Whole(100)))
        ELSE Zero

calculate_clo_scores(assessments, students) ==
    [sid \in DOMAIN students |->
        [clo \in DOMAIN assessments |->
            clo_final_score(assessments[clo], students[sid])]]

\* all_modules: the lists of all CLOs, concatenated.
RECURSIVE flatten(_, _)
flatten(assessments, keys) ==
    IF keys = {} THEN <<>>
    ELSE LET k == CHOOSE x \in keys : TRUE
         IN  assessments[k] \o flatten(assessments, keys \ {k})

\* calculate_grades, the loop body's contribution of one item.
grade_normalized(item, score) ==
    IF item.max_score # Zero
    THEN RatMul(RatDiv(score, item.max_score), item.weight)
    ELSE Zero

RECURSIVE grade_weighted_score(_, _)
grade_weighted_score(modules, scores) ==
    IF modules = <<>> THEN Zero
    ELSE LET item == modules[Len(modules)]
         IN  RatAdd(grade_weighted_score(SubSeq(modules, 1, Len(modules) - 1),
                                         scores),
                    grade_normalized(item, score_of(scores, item.module)))

grade_final_score(all_modules, total_weight, scores) ==
    IF total_weight # Zero
    THEN round2(RatMul(RatDiv(grade_weighted_score(all_modules, scores),
                              total_weight),
                       Whole(100)))
    ELSE Zero

\* Mutant of calculate_grades: all_modules is assigned, not extended, so it
\* holds the list of one CLO only.
calculate_grades_one_clo(assessments, students) ==
    LET all_modules  == IF DOMAIN assessments = {} THEN <<>>
                        ELSE assessments[CHOOSE k \in DOMAIN assessments : TRUE]
        total_weight == sum_weights(all_modules)
    IN  [sid \in DOMAIN students |->
            grade_final_score(all_modules, total_weight, students[sid])]

calculate_grades(assessments, students) ==
    LET all_modules  == flatten(assessments, DOMAIN assessments)
        total_weight == sum_weights(all_modules)
    IN  [sid \in DOMAIN students |->
            grade_final_score(all_modules, total_weight, students[sid])]

get_total_clo_weights(assessments) ==
    [clo \in DOMAIN assessments |-> round2(sum_weights(assessments[clo]))]

\* Mutant of plo_accumulate: total_weight counts the CLOs instead of adding
\* their weights.
RECURSIVE plo_accumulate_counting(_, _, _)
plo_accumulate_counting(cs, clo_vals, mapping) ==
    IF cs = {} THEN [sum |-> Zero, total_weight |-> Zero]
    ELSE LET c    == CHOOSE x \in cs : TRUE
             rest == plo_accumulate_counting(cs \ {c}, clo_vals, mapping)
         IN  [sum          |-> RatAdd(rest.sum,
                                      RatMul(clo_vals[c], mapping[c].weight)),
              total_weight |-> RatAdd(rest.total_weight, Whole(1))]

\* plo_map[plo] after the loop over the CLOs cs that map to one PLO.
RECURSIVE plo_accumulate(_, _, _)
plo_accumulate(cs, clo_vals, mapping) ==
    IF cs = {} THEN [sum |-> Zero, total_weight |-> Zero]
    ELSE LET c    == CHOOSE x \in cs : TRUE
             rest == plo_accumulate(cs \ {c}, clo_vals, mapping)
         IN  [sum          |-> RatAdd(rest.sum,
                                      RatMul(clo_vals[c], mapping[c].weight)),
              total_weight |-> RatAdd(rest.total_weight, mapping[c].weight)]

\* plo_map of one student: only CLOs that clo_to_plo.get(clo) finds take part.
plo_map(clo_vals, mapping) ==
    LET mapped == {c \in DOMAIN clo_vals : c \in DOMAIN mapping}
    IN  [p \in {mapping[c].PLO : c \in mapped} |->
            plo_accumulate({c \in mapped : mapping[c].PLO = p}, clo_vals, mapping)]

\* Mutant of calculate_plo_scores: a student whose plo_map is empty gets no
\* entry in the result.
calculate_plo_scores_skip_empty(scores, mapping) ==
    LET maps  == [sid \in DOMAIN scores |-> plo_map(scores[sid], mapping)]
        value == [sid \in {x \in DOMAIN scores : DOMAIN maps[x] # {}} |->
                    [p \in DOMAIN maps[sid] |->
                        round2(RatDiv(maps[sid][p].sum,
                                      maps[sid][p].total_weight))]]
    IN  IF \E sid \in DOMAIN value : \E p \in DOMAIN value[sid] :
              value[sid][p] = ZeroDivisionError
        THEN [ok |-> FALSE, error |-> "ZeroDivisionError"]
        ELSE [ok |-> TRUE, value |-> value]

\* The outcome of calculate_plo_scores: the result map, or the
\* ZeroDivisionError of vals["sum"] / vals["total_weight"].
calculate_plo_scores(scores, mapping) ==
    LET maps  == [sid \in DOMAIN scores |-> plo_map(scores[sid], mapping)]
        value == [sid \in DOMAIN scores |->
                    [p \in DOMAIN maps[sid] |->
                        round2(RatDiv(maps[sid][p].sum,
                                      maps[sid][p].total_weight))]]
    IN  IF \E sid \in DOMAIN value : \E p \in DOMAIN value[sid] :
              value[sid][p] = ZeroDivisionError
        THEN [ok |-> FALSE, error |-> "ZeroDivisionError"]
        ELSE [ok |-> TRUE, value |-> value]

(***************************************************************************)
(* Inputs of the scoring functions                                         *)
(***************************************************************************)
EmptyMap == [x \in {} |-> x]

NotRun == [ok |-> FALSE, error |-> "not run"]

ModuleName(j) == "Q" \o Ch(Digits, j + 1)

CloId(k) == "CLO " \o Ch(Digits, k + 1)

PloId(k) == "PLO " \o Ch(Digits, k + 1)

DomainSuffix == "@st.habib.edu.pk"

Sid(k) == "ab1234" \o Ch(Digits, k + 1) \o DomainSuffix

\* The number of module columns of a drawn assessment table.
MaxCols == 2

\* (max_score, weight) of a module column.
ItemShapes ==
    { [max_score |-> Whole(20), weight |-> Whole(15)],
      [max_score |-> Zero,      weight |-> Whole(15)],
      [max_score |-> Whole(3),  weight |-> Zero],
      [max_score |-> Whole(3),  weight |-> Whole(5)] }

\* What a student's map holds for a module: nothing (Null), a non-numeric
\* text, or a numeric text.
ScoreCells == { Null, "x", "18", "2" }

Columns == [clo : 1..2, shape : ItemShapes, cell : ScoreCells]

ColumnSeqs == UNION { [1..n -> Columns] : n \in 0..MaxCols }

\* clo_assessments of a column list: each column is appended to the list of
\* the CLO it maps to.
assessments_of(cols) ==
    LET idx(k) == SelectSeq([j \in 1..Len(cols) |-> j],
                            LAMBDA j : cols[j].clo = k)
    IN  [c \in {CloId(cols[j].clo) : j \in 1..Len(cols)} |->
            LET k  == CHOOSE k \in 1..2 : CloId(k) = c
                js == idx(k)
            IN  [i \in 1..Len(js) |->
                    [module    |-> ModuleName(js[i]),
                     max_score |-> cols[js[i]].shape.max_score,
                     weight    |-> cols[js[i]].shape.weight]]]

\* The student's map of a column list: missing cells are left out.
scores_of(cols) ==
    [m \in {ModuleName(j) : j \in {j \in 1..Len(cols) : cols[j].cell # Null}} |->
        cols[CHOOSE j \in 1..Len(cols) : ModuleName(j) = m].cell]

DefinedClos ==
    [c \in {CloId(1), CloId(2)} |-> [description |-> "Apply the method", LDL |-> "C3"]]

\* The variables of a flow that a specification does not exercise.
IdleCalc ==
    /\ clos = EmptyMap
    /\ clo_to_plo = EmptyMap
    /\ clo_assessments = EmptyMap
    /\ student_scores = EmptyMap
    /\ clo_scores = EmptyMap
    /\ plo_scores = NotRun
    /\ grades = EmptyMap
    /\ clo_weights = EmptyMap

IdleLetter ==
    /\ percentage = Zero
    /\ letter = ""

IdleId ==
    /\ student_id_raw = ""
    /\ edits = 0
    /\ id_result = NotRun

IdleSheet ==
    /\ df = <<>>
    /\ extraction = NotRun

IdleIds ==
    /\ ids_raw = <<>>
    /\ ids_result = NotRun

IdleTwice ==
    /\ run = 0
    /\ first_run = NotRun

IdleClean ==
    /\ raw_grid = <<>>
    /\ cleaned_grid = <<>>
    /\ cleaned_twice = <<>>

IdleFile ==
    /\ filename = ""
    /\ file_result = NotRun

NoDialog == [kind |-> "none", text |-> ""]

IdleFlow ==
    /\ file_paths = <<>>
    /\ script_exists = FALSE
    /\ file_index = 0
    /\ successful_files = <<>>
    /\ failed_files = <<>>
    /\ results_summary = EmptyMap
    /\ file_progress = <<>>
    /\ file_completed = <<>>
    /\ progress = <<>>
    /\ finished = <<>>
    /\ dialog = NoDialog
    /\ status = ""

IdleUi == IdleFile /\ IdleFlow

IdleLocate == data_rows = <<>>

\* HabibUniversityApp.__init__ and init_ui: nothing selected, no worker, the
\* process button disabled.
IdleWindow ==
    /\ processing_mode = "single"
    /\ current_file_path = Null
    /\ current_file_paths = <<>>
    /\ browse_file_btn = TRUE
    /\ browse_folder_btn = TRUE
    /\ process_btn = FALSE
    /\ file_processor = Null
    /\ batch_file_processor = Null
    /\ data_processor = Null
    /\ batch_data_processor = Null

IdleAux ==
    IdleIds /\ IdleTwice /\ IdleClean /\ IdleUi /\ IdleLocate /\ IdleWindow

(***************************************************************************)
(* SpecScore: calculate_clo_scores, calculate_plo_scores, calculate_grades *)
(* and get_total_clo_weights on drawn inputs, called in the order of       *)
(* _process_calculation_results.                                           *)
(***************************************************************************)
InitScore ==
    /\ pc = "start"
    /\ clos = DefinedClos
    /\ clo_to_plo = (CloId(1) :> [PLO |-> PloId(1), weight |-> Whole(1)])
    /\ \E cols \in ColumnSeqs, empty_list \in BOOLEAN :
          /\ clo_assessments =
                IF empty_list
                THEN assessments_of(cols) @@ (CloId(3) :> <<>>)
                ELSE assessments_of(cols)
          /\ student_scores =
                (Sid(1) :> scores_of(cols))
                @@ (Sid(2) :> (ModuleName(1) :> "10"))
    /\ clo_scores = EmptyMap
    /\ plo_scores = NotRun
    /\ grades = EmptyMap
    /\ clo_weights = EmptyMap
    /\ IdleLetter
    /\ IdleId
    /\ IdleSheet
    /\ IdleAux

CalcCloScores ==
    /\ pc = "start"
    /\ clo_scores' = calculate_clo_scores(clo_assessments, student_scores)
    /\ pc' = "clo_scores"
    /\ UNCHANGED <<clos, clo_to_plo, clo_assessments, student_scores,
                   plo_scores, grades, clo_weights, letter_vars, id_vars, sheet_vars, aux_vars>>

CalcPloScores ==
    /\ pc = "clo_scores"
    /\ plo_scores' = calculate_plo_scores(clo_scores, clo_to_plo)
    /\ pc' = "plo_scores"
    /\ UNCHANGED <<clos, clo_to_plo, clo_assessments, student_scores,
                   clo_scores, grades, clo_weights, letter_vars, id_vars, sheet_vars, aux_vars>>

CalcGrades ==
    /\ pc = "plo_scores"
    /\ plo_scores.ok
    /\ grades' = calculate_grades(clo_assessments, student_scores)
    /\ pc' = "grades"
    /\ UNCHANGED <<clos, clo_to_plo, clo_assessments, student_scores,
                   clo_scores, plo_scores, clo_weights, letter_vars, id_vars, sheet_vars, aux_vars>>

CalcWeights ==
    /\ pc = "grades"
    /\ clo_weights' = get_total_clo_weights(clo_assessments)
    /\ pc' = "done"
    /\ UNCHANGED <<clos, clo_to_plo, clo_assessments, student_scores,
                   clo_scores, plo_scores, grades, letter_vars, id_vars, sheet_vars, aux_vars>>

NextScore == CalcCloScores \/ CalcPloScores \/ CalcGrades \/ CalcWeights

SpecScore == InitScore /\ [][NextScore]_vars

(***************************************************************************)
(* SpecPlo: calculate_plo_scores on drawn CLO scores and CLO-to-PLO        *)
(* mappings.                                                               *)
(***************************************************************************)
\* The number of CLOs a drawn clo_scores / clo_to_plo pair ranges over.
MaxMapClos == 2

CloScoreVals == { Zero, Whole(80), Whole(90) }

PloWeights == { Zero, Rat(4, 10), Rat(6, 10) }

PloMappings == [PLO : {PloId(1), PloId(2)}, weight : PloWeights]

\* The maps from a subset of the CLO ids 1..MaxMapClos into V.
PartialMaps(V) ==
    UNION { [ks -> V] : ks \in SUBSET {CloId(k) : k \in 1..MaxMapClos} }

InitPlo ==
    /\ pc = "clo_scores"
    /\ clos = DefinedClos
    /\ clo_assessments = EmptyMap
    /\ student_scores = EmptyMap
    /\ clo_to_plo \in PartialMaps(PloMappings)
    /\ \E vals \in PartialMaps(CloScoreVals) :
          clo_scores = (Sid(1) :> vals) @@ (Sid(2) :> (CloId(1) :> Rat(3333, 100)))
    /\ plo_scores = NotRun
    /\ grades = EmptyMap
    /\ clo_weights = EmptyMap
    /\ IdleLetter
    /\ IdleId
    /\ IdleSheet
    /\ IdleAux

NextPlo == CalcPloScores

SpecPlo == InitPlo /\ [][NextPlo]_vars

(***************************************************************************)
(* SpecLetter: get_letter_grade on drawn percentages (a percentage is a    *)
(* grade of calculate_grades: a number with two decimals).                 *)
(***************************************************************************)
\* Mutant of get_letter_grade: the thresholds are exclusive.
get_letter_grade_exclusive(p) ==
    IF ~RatGeq(Whole(95), p) THEN "A+"
    ELSE IF ~RatGeq(Whole(90), p) THEN "A"
    ELSE IF ~RatGeq(Whole(85), p) THEN "A-"
    ELSE IF ~RatGeq(Whole(80), p) THEN "B+"
    ELSE IF ~RatGeq(Whole(75), p) THEN "B"
    ELSE IF ~RatGeq(Whole(70), p) THEN "B-"
    ELSE IF ~RatGeq(Whole(67), p) THEN "C+"
    ELSE IF ~RatGeq(Whole(63), p) THEN "C"
    ELSE IF ~RatGeq(Whole(60), p) THEN "C-"
    ELSE "F"

get_letter_grade(p) ==
    IF RatGeq(p, Whole(95)) THEN "A+"
    ELSE IF RatGeq(p, Whole(90)) THEN "A"
    ELSE IF RatGeq(p, Whole(85)) THEN "A-"
    ELSE IF RatGeq(p, Whole(80)) THEN "B+"
    ELSE IF RatGeq(p, Whole(75)) THEN "B"
    ELSE IF RatGeq(p, Whole(70)) THEN "B-"
    ELSE IF RatGeq(p, Whole(67)) THEN "C+"
    ELSE IF RatGeq(p, Whole(63)) THEN "C"
    ELSE IF RatGeq(p, Whole(60)) THEN "C-"
    ELSE "F"

\* The largest drawn percentage, in hundredths of a percent.
MaxHundredths == 10000

Percentages == {Rat(h, 100) : h \in 0..MaxHundredths}

InitLetter ==
    /\ pc = "start"
    /\ IdleCalc
    /\ percentage \in Percentages
    /\ letter = ""
    /\ IdleId
    /\ IdleSheet
    /\ IdleAux

GetLetterGrade ==
    /\ pc = "start"
    /\ letter' = get_letter_grade(percentage)
    /\ pc' = "letter"
    /\ UNCHANGED <<calc_vars, percentage, id_vars, sheet_vars, aux_vars>>

NextLetter == GetLetterGrade

SpecLetter == InitLetter /\ [][NextLetter]_vars

(***************************************************************************)
(* Identifier normalisation: src/data.py. The model alphabet is ASCII      *)
(* letters, digits, the blank, "-", "@" and "."; it holds no line break    *)
(* and no non-ASCII digit.                                                 *)
(***************************************************************************)
\* re.match(r'^[a-z]{2}\d{5}$', s)
matches_id_pattern(s) ==
    /\ Len(s) = 7
    /\ \A i \in 1..2 : IsLetter(Ch(s, i))
    /\ \A i \in 3..7 : IsDigit(Ch(s, i))

\* Mutant of cleaned_id: only blanks are removed.
RECURSIVE cleaned_id_blanks_only(_)
cleaned_id_blanks_only(student_id) ==
    IF student_id = "" THEN ""
    ELSE (IF Head(student_id) = " " THEN "" ELSE Head(student_id))
         \o cleaned_id_blanks_only(Tail(student_id))

\* cleaned_id = re.sub(r'[^a-z0-9]', '', student_id)
cleaned_id(student_id) == Keep(student_id, Letters \o Digits)

\* Mutant of email_branch: the domain is looked for at the end only.
email_branch_endswith(student_id) == EndsWith(student_id, DomainSuffix)

\* The test that selects the e-mail branch: '@st.habib.edu.pk' in student_id
email_branch(student_id) == Contains(student_id, DomainSuffix)

Accepted(id) == [ok |-> TRUE, id |-> id]

Rejected(error, named) == [ok |-> FALSE, error |-> error, named |-> named]

\* The outcome of validate_and_format_student_id: the returned identifier, or
\* the ValueError raised, with the value its message names.
validate_and_format_student_id(raw) ==
    IF raw = Null
    THEN Rejected("Student ID cannot be empty or null", "")
    ELSE
    LET student_id == Lower(Strip(raw))
    IN  IF email_branch(student_id)
        THEN LET local_part == BeforeFirst(student_id, "@")
             IN  IF ~matches_id_pattern(local_part)
                 THEN Rejected("Invalid student email format", student_id)
                 ELSE IF ~EndsWith(student_id, DomainSuffix)
                 THEN Rejected("Invalid domain in student email", student_id)
                 ELSE Accepted(student_id)
        ELSE IF matches_id_pattern(student_id)
        THEN Accepted(student_id \o DomainSuffix)
        ELSE IF matches_id_pattern(cleaned_id(student_id))
        THEN Accepted(cleaned_id(student_id) \o DomainSuffix)
        ELSE LET letters == Keep(student_id, Letters)
                 numbers == Keep(student_id, Digits)
                 formatted_id == SubSeq(letters, 1, 2) \o SubSeq(numbers, 1, 5)
             IN  IF Len(letters) >= 2 /\ Len(numbers) >= 5
                    /\ matches_id_pattern(formatted_id)
                 THEN Accepted(formatted_id \o DomainSuffix)
                 ELSE Rejected("Invalid student ID format", raw)

(***************************************************************************)
(* SpecId: validate_and_format_student_id on drawn raw identifiers: a seed *)
(* with up to MaxEdits symbols added in front or at the end.               *)
(***************************************************************************)
\* How many symbols are added to a seed.
MaxEdits == 3

Seeds == { "", "hm08298", "HM08298@ST.HABIB.EDU.PK", "12345", "h-m 082-98" }

\* A symbol is a character of the alphabet or the whole domain suffix.
Symbols == { "a", "Z", "7", " ", "-", "@", DomainSuffix }

InitId ==
    /\ pc = "start"
    /\ IdleCalc
    /\ IdleLetter
    /\ IdleSheet
    /\ IdleAux
    /\ student_id_raw \in Seeds
    /\ edits = 0
    /\ id_result = NotRun

AppendSymbol ==
    /\ pc = "start"
    /\ edits < MaxEdits
    /\ \E c \in Symbols : student_id_raw' = student_id_raw \o c
    /\ edits' = edits + 1
    /\ UNCHANGED <<pc, calc_vars, letter_vars, id_result, sheet_vars, aux_vars>>

PrependSymbol ==
    /\ pc = "start"
    /\ edits < MaxEdits
    /\ \E c \in Symbols : student_id_raw' = c \o student_id_raw
    /\ edits' = edits + 1
    /\ UNCHANGED <<pc, calc_vars, letter_vars, id_result, sheet_vars, aux_vars>>

ValidateId ==
    /\ pc = "start"
    /\ id_result' = validate_and_format_student_id(student_id_raw)
    /\ pc' = "validated"
    /\ UNCHANGED <<calc_vars, letter_vars, student_id_raw, edits, sheet_vars, aux_vars>>

NextId == AppendSymbol \/ PrependSymbol \/ ValidateId

SpecId == InitId /\ [][NextId]_vars

(***************************************************************************)
(* Extraction: extract_clo_plo_data of src/data.py on a cleaned sheet df,  *)
(* a sequence of rows of equal length whose cells are text or Null.        *)
(***************************************************************************)
\* df.iloc[i, j]: rows and columns are counted from 0, as in the code.
iloc(d, i, j) == d[i + 1][j + 1]

\* len(df.columns)
NCols(d) == Len(d[1])

\* s.startswith(p)
StartsWith(s, p) == Len(s) >= Len(p) /\ SubSeq(s, 1, Len(p)) = p

\* s.split(c) for a one-character separator c.
RECURSIVE Split(_, _)
Split(s, c) ==
    IF ~Contains(s, c) THEN <<s>>
    ELSE LET first == BeforeFirst(s, c)
         IN  <<first>> \o Split(SubSeq(s, Len(first) + 2, Len(s)), c)

\* dict[k] = v
Put(f, k, v) == (k :> v) @@ f

Max(S) == CHOOSE x \in S : \A y \in S : y <= x

Min(S) == CHOOSE x \in S : \A y \in S : x <= y

\* A character of the regular expression class \w.
IsWordChar(c) ==
    IsLetter(c) \/ IsDigit(c) \/ c = "_"
    \/ \E i \in 1..Len(Capitals) : Ch(Capitals, i) = c

\* re.search(r'\bmodule(s)?\b', s)
has_module_word(s) ==
    \E i \in 1..(Len(s) - 5) :
        /\ SubSeq(s, i, i + 5) = "module"
        /\ (i = 1 \/ ~IsWordChar(Ch(s, i - 1)))
        /\ LET e == i + 6
           IN  \/ e > Len(s)
               \/ ~IsWordChar(Ch(s, e))
               \/ /\ Ch(s, e) = "s"
                  /\ (e + 1 > Len(s) \/ ~IsWordChar(Ch(s, e + 1)))

\* Mutant of find_data_rows: the last row that holds the word is taken.
find_data_rows_last(d) ==
    LET hits == {i \in 0..(Len(d) - 1) :
                    has_module_word(Lower(Strip(iloc(d, i, 0))))}
    IN  IF hits = {} THEN 10 ELSE Max(hits)

\* find_data_rows: the row of the first cell of column 0 that holds the word
\* "module" or "modules", else row 10.  (str(None) is "None", which holds
\* neither, as Null does not.)
find_data_rows(d) ==
    LET hits == {i \in 0..(Len(d) - 1) :
                    has_module_word(Lower(Strip(iloc(d, i, 0))))}
    IN  IF hits = {} THEN 10 ELSE Min(hits)

\* Mutant of define_clos: a description of ten characters is accepted.
RECURSIVE define_clos_from_ten(_, _)
define_clos_from_ten(d, n) ==
    IF n = 0 THEN [clos |-> EmptyMap, clo_to_plo |-> EmptyMap]
    ELSE
    LET acc         == define_clos_from_ten(d, n - 1)
        clo_cell    == iloc(d, n - 1, 0)
        clo_id      == Strip(clo_cell)
        description == IF NCols(d) > 1 THEN iloc(d, n - 1, 1) ELSE ""
        ldl         == IF NCols(d) > 2 THEN iloc(d, n - 1, 2) ELSE ""
        plo_map_cell == IF NCols(d) > 3 THEN iloc(d, n - 1, 3) ELSE ""
        parts       == Split(plo_map_cell, ";")
        weight      == float_of_str(parts[2])
    IN  IF clo_cell = Null \/ ~StartsWith(clo_id, "CLO") THEN acc
        ELSE IF description = Null \/ Len(Strip(description)) < 10 THEN acc
        ELSE [clos |-> Put(acc.clos, clo_id,
                           [description |-> description, LDL |-> ldl]),
              clo_to_plo |->
                 IF plo_map_cell # Null /\ Contains(plo_map_cell, ";")
                    /\ Len(parts) = 2 /\ weight.ok
                 THEN Put(acc.clo_to_plo, clo_id,
                          [PLO |-> "PLO " \o Strip(parts[1]),
                           weight |-> weight.val])
                 ELSE acc.clo_to_plo]

\* Mutant of define_clos: the PLO mapping of a row is recorded before its
\* description is looked at.
RECURSIVE define_clos_mapping_first(_, _)
define_clos_mapping_first(d, n) ==
    IF n = 0 THEN [clos |-> EmptyMap, clo_to_plo |-> EmptyMap]
    ELSE
    LET acc         == define_clos_mapping_first(d, n - 1)
        clo_cell    == iloc(d, n - 1, 0)
        clo_id      == Strip(clo_cell)
        description == IF NCols(d) > 1 THEN iloc(d, n - 1, 1) ELSE ""
        ldl         == IF NCols(d) > 2 THEN iloc(d, n - 1, 2) ELSE ""
        plo_map_cell == IF NCols(d) > 3 THEN iloc(d, n - 1, 3) ELSE ""
        parts       == Split(plo_map_cell, ";")
        weight      == float_of_str(parts[2])
    IN  IF clo_cell = Null \/ ~StartsWith(clo_id, "CLO") THEN acc
        ELSE [clos |-> IF description = Null \/ Len(Strip(description)) <= 10
                       THEN acc.clos
                       ELSE Put(acc.clos, clo_id,
                                [description |-> description, LDL |-> ldl]),
              clo_to_plo |->
                 IF plo_map_cell # Null /\ Contains(plo_map_cell, ";")
                    /\ Len(parts) = 2 /\ weight.ok
                 THEN Put(acc.clo_to_plo, clo_id,
                          [PLO |-> "PLO " \o Strip(parts[1]),
                           weight |-> weight.val])
                 ELSE acc.clo_to_plo]

\* The CLO-definition loop of extract_clo_plo_data after its first n rows.
RECURSIVE define_clos(_, _)
define_clos(d, n) ==
    IF n = 0 THEN [clos |-> EmptyMap, clo_to_plo |-> EmptyMap]
    ELSE
    LET acc         == define_clos(d, n - 1)
        clo_cell    == iloc(d, n - 1, 0)
        clo_id      == Strip(clo_cell)
        description == IF NCols(d) > 1 THEN iloc(d, n - 1, 1) ELSE ""
        ldl         == IF NCols(d) > 2 THEN iloc(d, n - 1, 2) ELSE ""
        plo_map_cell == IF NCols(d) > 3 THEN iloc(d, n - 1, 3) ELSE ""
        parts       == Split(plo_map_cell, ";")
        weight      == float_of_str(parts[2])
    IN  IF clo_cell = Null \/ ~StartsWith(clo_id, "CLO") THEN acc
        ELSE IF description = Null \/ Len(Strip(description)) <= 10 THEN acc
        ELSE [clos |-> Put(acc.clos, clo_id,
                           [description |-> description, LDL |-> ldl]),
              clo_to_plo |->
                 IF plo_map_cell # Null /\ Contains(plo_map_cell, ";")
                    /\ Len(parts) = 2 /\ weight.ok
                 THEN Put(acc.clo_to_plo, clo_id,
                          [PLO |-> "PLO " \o Strip(parts[1]),
                           weight |-> weight.val])
                 ELSE acc.clo_to_plo]

\* Mutant of collect_assessments: the mapping cell is read as
\* "<weight>;<clo-index>".
RECURSIVE collect_assessments_swapped(_, _, _, _)
collect_assessments_swapped(module_names, clo_mapping, max_scores, n) ==
    IF n = 0 THEN EmptyMap
    ELSE
    LET acc       == collect_assessments_swapped(module_names, clo_mapping,
                                                 max_scores, n - 1)
        mapping   == clo_mapping[n]
        parts     == Split(mapping, ";")
        clo_id    == "CLO " \o Strip(parts[2])
        listed    == IF clo_id \in DOMAIN acc THEN acc ELSE Put(acc, clo_id, <<>>)
        max_score == IF max_scores[n] = Null THEN [ok |-> FALSE]
                     ELSE float_of_str(max_scores[n])
        weight    == float_of_str(parts[1])
    IN  IF mapping = Null \/ ~Contains(mapping, ";") THEN acc
        ELSE IF Len(parts) # 2 THEN acc
        ELSE IF ~(max_score.ok /\ weight.ok) THEN listed
        ELSE Put(listed, clo_id,
                 Append(listed[clo_id],
                        [module    |-> module_names[n],
                         max_score |-> max_score.val,
                         weight    |-> weight.val]))

\* Mutant of collect_assessments: a new assessment is put before those the
\* CLO already has.
RECURSIVE collect_assessments_reversed(_, _, _, _)
collect_assessments_reversed(module_names, clo_mapping, max_scores, n) ==
    IF n = 0 THEN EmptyMap
    ELSE
    LET acc       == collect_assessments_reversed(module_names, clo_mapping, max_scores, n - 1)
        mapping   == clo_mapping[n]
        parts     == Split(mapping, ";")
        clo_id    == "CLO " \o Strip(parts[1])
        listed    == IF clo_id \in DOMAIN acc THEN acc ELSE Put(acc, clo_id, <<>>)
        max_score == IF max_scores[n] = Null THEN [ok |-> FALSE]
                     ELSE float_of_str(max_scores[n])
        weight    == float_of_str(parts[2])
    IN  IF mapping = Null \/ ~Contains(mapping, ";") THEN acc
        ELSE IF Len(parts) # 2 THEN acc
        ELSE IF ~(max_score.ok /\ weight.ok) THEN listed
        ELSE Put(listed, clo_id,
                 <<[module    |-> module_names[n],
                    max_score |-> max_score.val,
                    weight    |-> weight.val]>> \o listed[clo_id])

\* The assessment loop of extract_clo_plo_data after the first n columns of
\* module_names, clo_mapping and max_scores.  The CLO's list is created
\* before the numbers are parsed, so a parse failure leaves an empty list.
RECURSIVE collect_assessments(_, _, _, _)
collect_assessments(module_names, clo_mapping, max_scores, n) ==
    IF n = 0 THEN EmptyMap
    ELSE
    LET acc       == collect_assessments(module_names, clo_mapping, max_scores, n - 1)
        mapping   == clo_mapping[n]
        parts     == Split(mapping, ";")
        clo_id    == "CLO " \o Strip(parts[1])
        listed    == IF clo_id \in DOMAIN acc THEN acc ELSE Put(acc, clo_id, <<>>)
        max_score == IF max_scores[n] = Null THEN [ok |-> FALSE]
                     ELSE float_of_str(max_scores[n])
        weight    == float_of_str(parts[2])
    IN  IF mapping = Null \/ ~Contains(mapping, ";") THEN acc
        ELSE IF Len(parts) # 2 THEN acc
        ELSE IF ~(max_score.ok /\ weight.ok) THEN listed
        ELSE Put(listed, clo_id,
                 Append(listed[clo_id],
                        [module    |-> module_names[n],
                         max_score |-> max_score.val,
                         weight    |-> weight.val]))

\* The row's dict {module_names[j]: scores[j] for j ... if notnull(scores[j])}:
\* a later column replaces an earlier one of the same name.
row_scores(module_names, scores) ==
    LET present == {j \in 1..Len(module_names) : scores[j] # Null}
    IN  [m \in {module_names[j] : j \in present} |->
            scores[Max({j \in present : module_names[j] = m})]]

\* raw_student_scores[k] = v on a dict kept as the sequence of its entries in
\* insertion order: an existing key keeps its place and takes the new value.
Upsert(q, k, v) ==
    IF \E i \in 1..Len(q) : q[i].id = k
    THEN [i \in 1..Len(q) |-> IF q[i].id = k THEN [id |-> k, scores |-> v] ELSE q[i]]
    ELSE Append(q, [id |-> k, scores |-> v])

\* The student loop of extract_clo_plo_data over the rows first..(n - 1).
RECURSIVE collect_students(_, _, _, _)
collect_students(d, module_names, first, n) ==
    IF n <= first THEN <<>>
    ELSE LET acc            == collect_students(d, module_names, first, n - 1)
             student_id_row == iloc(d, n - 1, 0)
         IN  IF student_id_row = Null THEN acc
             ELSE Upsert(acc, student_id_row, row_scores(module_names, Tail(d[n])))

\* Mutant of validate_ids: the loop stops at the first identifier that is
\* rejected.
RECURSIVE validate_ids_fail_fast(_, _)
validate_ids_fail_fast(raw, n) ==
    IF n = 0 THEN [formatted_scores |-> EmptyMap, invalid_ids |-> <<>>]
    ELSE LET acc == validate_ids_fail_fast(raw, n - 1)
             r   == validate_and_format_student_id(raw[n].id)
         IN  IF acc.invalid_ids # <<>> THEN acc
             ELSE IF r.ok
             THEN [acc EXCEPT !.formatted_scores = Put(@, r.id, raw[n].scores)]
             ELSE [acc EXCEPT !.invalid_ids = Append(@, raw[n].id)]

\* Mutant of validate_ids: the entries are visited in an order that differs
\* from one run to the next (reversed in the second run).
RECURSIVE validate_ids_run_order(_, _)
validate_ids_run_order(raw, n) ==
    IF n = 0 THEN [formatted_scores |-> EmptyMap, invalid_ids |-> <<>>]
    ELSE LET acc == validate_ids_run_order(raw, n - 1)
             e   == IF run = 2 THEN raw[Len(raw) - n + 1] ELSE raw[n]
             r   == validate_and_format_student_id(e.id)
         IN  IF r.ok
             THEN [acc EXCEPT !.formatted_scores = Put(@, r.id, e.scores)]
             ELSE [acc EXCEPT !.invalid_ids = Append(@, e.id)]

\* The variant of validate_ids that keeps the first entry of a canonical
\* identifier (formatted_scores.setdefault in place of the assignment).
RECURSIVE validate_ids_keep_first(_, _)
validate_ids_keep_first(raw, n) ==
    IF n = 0 THEN [formatted_scores |-> EmptyMap, invalid_ids |-> <<>>]
    ELSE LET acc == validate_ids_keep_first(raw, n - 1)
             r   == validate_and_format_student_id(raw[n].id)
         IN  IF r.ok
             THEN IF r.id \in DOMAIN acc.formatted_scores THEN acc
                  ELSE [acc EXCEPT !.formatted_scores = Put(@, r.id, raw[n].scores)]
             ELSE [acc EXCEPT !.invalid_ids = Append(@, raw[n].id)]

\* The loop of validate_all_student_ids after the first n entries.
RECURSIVE validate_ids(_, _)
validate_ids(raw, n) ==
    IF n = 0 THEN [formatted_scores |-> EmptyMap, invalid_ids |-> <<>>]
    ELSE LET acc == validate_ids(raw, n - 1)
             r   == validate_and_format_student_id(raw[n].id)
         IN  IF r.ok
             THEN [acc EXCEPT !.formatted_scores = Put(@, r.id, raw[n].scores)]
             ELSE [acc EXCEPT !.invalid_ids = Append(@, raw[n].id)]

\* validate_all_student_ids: the formatted map, or one ValueError that lists
\* the raw identifiers that were rejected.
validate_all_student_ids(raw) ==
    LET r == validate_ids(raw, Len(raw))
    IN  IF r.invalid_ids # <<>>
        THEN [ok |-> FALSE, error |-> "ValueError", invalid_ids |-> r.invalid_ids]
        ELSE [ok |-> TRUE, value |-> r.formatted_scores]

\* extract_clo_plo_data from the rows that find_data_rows located on: the
\* four extracted maps, or the exception raised (IndexError for a row read
\* beyond the sheet, ValueError for identifiers).
extract_located(d, module_row) ==
    IF module_row + 2 >= Len(d)
    THEN [ok |-> FALSE, error |-> "IndexError", invalid_ids |-> <<>>]
    ELSE
    LET defs         == define_clos(d, Len(d))
        module_names == Tail(d[module_row + 1])
        clo_mapping  == Tail(d[module_row + 2])
        max_scores   == Tail(d[module_row + 3])
        raw_student_scores ==
            collect_students(d, module_names, module_row + 3, Len(d))
        validated == validate_all_student_ids(raw_student_scores)
    IN  IF ~validated.ok THEN validated
        ELSE [ok |-> TRUE,
              clos |-> defs.clos,
              clo_to_plo |-> defs.clo_to_plo,
              clo_assessments |->
                  collect_assessments(module_names, clo_mapping,
                                      max_scores, Len(module_names)),
              student_scores |-> validated.value]

extract_clo_plo_data(d) == extract_located(d, find_data_rows(d))

\* json.dumps then json.loads of a dict key: None becomes the text "null".
JsonKey(k) == IF k = Null THEN "null" ELSE k

\* json.loads(json.dumps(student_scores)): the keys of each student's map
\* become text.  (No cell of a sheet is the text "null": the reader takes it
\* for a missing cell.)
json_student_scores(scores) ==
    [sid \in DOMAIN scores |->
        [k \in {JsonKey(m) : m \in DOMAIN scores[sid]} |->
            scores[sid][CHOOSE m \in DOMAIN scores[sid] : JsonKey(m) = k]]]

(***************************************************************************)
(* Spec: the whole engine on drawn cleaned sheets: extract_clo_plo_data,   *)
(* the JSON hand-over, then the calls of _process_calculation_results.     *)
(***************************************************************************)
LongDescription == "Apply the method to data"

\* The choices a drawn sheet is built from: sheets with a "Modules" row, and
\* sheets without one, for which find_data_rows falls back to row 10.
SheetChoices ==
    [plo1   : {"1;1.0", "1;0", Null},
     desc2  : {"Analyse the results", "Analyse"},
     anchor : {"Modules"},
     map1   : {"1;15", "2;15"},
     max1   : {"20", "0"},
     map2   : {Null, "1;5", "3;10", "2;x"},
     s11    : {"18", Null, "abc"},
     s12    : {"5", Null},
     id1    : {"hm08298", "HM 08298", "12345"},
     second : {"", "ab12345", "hm-08298"}]
    \cup
    [plo1   : {"1;1.0"},
     desc2  : {"Analyse the results"},
     anchor : {"Mods"},
     map1   : {"1;15"},
     max1   : {"20"},
     map2   : {Null},
     s11    : {"18"},
     s12    : {"5"},
     id1    : {"hm08298", "HM 08298", "12345"},
     second : {"", "ab12345", "hm-08298"}]

\* The sheet of a choice: two CLO rows, the module / mapping / max-score
\* rows, and one or two student rows.
Sheet(a) ==
    << <<"CLO 1", LongDescription, "C3", a.plo1>>,
       <<"CLO 2", a.desc2, "C2", Null>>,
       <<a.anchor, "Q1", "Q2", "Q3">>,
       <<"CLO", a.map1, a.map2, Null>>,
       <<"Max", a.max1, "10", "5">>,
       <<a.id1, a.s11, a.s12, Null>> >>
    \o (IF a.second = "" THEN <<>> ELSE << <<a.second, "20", "10", "4">> >>)

\* What the cleaning of preprocess_excel_and_extract leaves: every row holds
\* more than two characters and no column is missing in 70 % of the rows or
\* more.
Cleaned(d) ==
    /\ \A i \in 1..Len(d) :
          \E j \in 1..Len(d[i]) : d[i][j] # Null /\ Len(d[i][j]) > 2
    /\ \A j \in 1..NCols(d) :
          10 * Cardinality({i \in 1..Len(d) : d[i][j] = Null}) < 7 * Len(d)

\* A cleaned sheet is loaded and nothing is computed yet.
InitSheet ==
    /\ pc = "sheet"
    /\ \E a \in SheetChoices : df = Sheet(a)
    /\ Cleaned(df)
    /\ extraction = NotRun
    /\ IdleCalc
    /\ IdleLetter
    /\ IdleId

Init == InitSheet /\ IdleAux

\* extract_clo_plo_data succeeds and its JSON output is parsed.
ExtractData ==
    /\ pc = "sheet"
    /\ \E r \in {extract_clo_plo_data(df)} :
          /\ r.ok
          /\ extraction' = [ok |-> TRUE]
          /\ clos' = r.clos
          /\ clo_to_plo' = r.clo_to_plo
          /\ clo_assessments' = r.clo_assessments
          /\ student_scores' = json_student_scores(r.student_scores)
    /\ pc' = "start"
    /\ UNCHANGED <<df, clo_scores, plo_scores, grades, clo_weights,
                   letter_vars, id_vars, aux_vars>>

\* extract_clo_plo_data raises: nothing is handed over.
ExtractFails ==
    /\ pc = "sheet"
    /\ \E r \in {extract_clo_plo_data(df)} :
          /\ ~r.ok
          /\ extraction' = r
    /\ pc' = "failed"
    /\ UNCHANGED <<df, calc_vars, letter_vars, id_vars, aux_vars>>

Next ==
    \/ ExtractData
    \/ ExtractFails
    \/ CalcCloScores
    \/ CalcPloScores
    \/ CalcGrades
    \/ CalcWeights

Spec == Init /\ [][Next]_vars

(***************************************************************************)
(* SpecTwice: the engine is run on a sheet, and then once more on the same *)
(* sheet.                                                                  *)
(***************************************************************************)
\* The run has ended: every calculation returned, or extraction raised, or
\* calculate_plo_scores raised.
Terminal ==
    \/ pc = "done"
    \/ pc = "failed"
    \/ pc = "plo_scores" /\ ~plo_scores.ok

\* What a run ends with: the outcome and every extracted and computed map.
Outputs ==
    [pc |-> pc, extraction |-> extraction, clos |-> clos,
     clo_to_plo |-> clo_to_plo, clo_assessments |-> clo_assessments,
     student_scores |-> student_scores, clo_scores |-> clo_scores,
     plo_scores |-> plo_scores, grades |-> grades,
     clo_weights |-> clo_weights]

InitTwice ==
    /\ InitSheet
    /\ IdleIds
    /\ IdleClean
    /\ IdleUi
    /\ IdleLocate
    /\ IdleWindow
    /\ run = 1
    /\ first_run = NotRun

\* The first run has ended: its outputs are kept and the engine is started
\* again on the same sheet, as a new process with nothing computed.
RunAgain ==
    /\ run = 1
    /\ Terminal
    /\ first_run' = Outputs
    /\ run' = 2
    /\ pc' = "sheet"
    /\ extraction' = NotRun
    /\ clos' = EmptyMap
    /\ clo_to_plo' = EmptyMap
    /\ clo_assessments' = EmptyMap
    /\ student_scores' = EmptyMap
    /\ clo_scores' = EmptyMap
    /\ plo_scores' = NotRun
    /\ grades' = EmptyMap
    /\ clo_weights' = EmptyMap
    /\ UNCHANGED <<df, letter_vars, id_vars, ids_vars, clean_vars, ui_vars, locate_vars, window_vars>>

NextTwice == Next \/ RunAgain

SpecTwice == InitTwice /\ [][NextTwice]_vars

(***************************************************************************)
(* SpecIds: validate_all_student_ids on drawn maps of raw identifiers.     *)
(***************************************************************************)
\* The number of entries of a drawn map of raw identifiers.
MaxStudents == 3

\* Raw identifiers: accepted ones (three of which normalise to one
\* identifier, one with a doubled "@", one with six digits) and rejected ones.
RawIds ==
    { "hm08298", "HM08298", "hm-08298", "ab12345" \o DomainSuffix,
      "hm08298@" \o DomainSuffix, "hm123456", "12345", "abc123" }

\* The scores of the i-th entry: they tell the entries apart.
EntryScores(i) == (ModuleName(1) :> Ch(Digits, i + 1))

\* The dicts of at most MaxStudents entries, as the sequence of their entries
\* in insertion order: the keys are distinct.
RawMaps ==
    UNION { { [i \in 1..n |-> [id |-> ids[i], scores |-> EntryScores(i)]] :
                ids \in { q \in [1..n -> RawIds] :
                             \A i, j \in 1..n : q[i] = q[j] => i = j } } :
            n \in 0..MaxStudents }

InitIds ==
    /\ pc = "ids"
    /\ ids_raw \in RawMaps
    /\ ids_result = NotRun
    /\ IdleCalc
    /\ IdleLetter
    /\ IdleId
    /\ IdleSheet
    /\ IdleTwice
    /\ IdleClean
    /\ IdleUi
    /\ IdleLocate
    /\ IdleWindow

ValidateAll ==
    /\ pc = "ids"
    /\ ids_result' = validate_all_student_ids(ids_raw)
    /\ pc' = "ids_validated"
    /\ UNCHANGED <<calc_vars, letter_vars, id_vars, sheet_vars, ids_raw, twice_vars,
                   clean_vars, ui_vars, locate_vars, window_vars>>

NextIds == ValidateAll

SpecIds == InitIds /\ [][NextIds]_vars

(***************************************************************************)
(* Cleaning: clean_cell, clean_dataframe, drop_short_rows and the sparsity *)
(* filter of preprocess_excel_and_extract.  A cell of a loaded sheet is a  *)
(* text, a number or missing; a grid is a sequence of rows of equal        *)
(* length.  In a text, "^" stands for the zero-width space U+200B, "_" for *)
(* the no-break space U+00A0, "|" for a tab, carriage return or line feed  *)
(* and "~" for a code point beyond ASCII.                                  *)
(***************************************************************************)
Text(s) == [kind |-> "text", text |-> s]

\* A numeric cell, with the text str() gives for it.
Number(s) == [kind |-> "number", text |-> s]

\* None / NaN
Missing == [kind |-> "missing", text |-> ""]

\* s.replace(c, d) for a character c.
RECURSIVE Replace(_, _, _)
Replace(s, c, d) ==
    IF s = "" THEN ""
    ELSE (IF Head(s) = c THEN d ELSE Head(s)) \o Replace(Tail(s), c, d)

clean_cell(value) ==
    IF value = Missing THEN Missing
    ELSE LET val0 == value.text
             val1 == Replace(Replace(val0, "^", ""), "_", " ")
             val2 == Replace(val1, "|", " ")
             val3 == Replace(val2, "~", "")
         IN  Text(Strip(val3))

\* The cells of row at the column positions of J, in column order.
RECURSIVE Pick(_, _, _)
Pick(row, J, j) ==
    IF j > Len(row) THEN <<>>
    ELSE (IF j \in J THEN <<row[j]>> ELSE <<>>) \o Pick(row, J, j + 1)

\* The grid g restricted to the columns of J.
KeepCols(g, J) == [i \in 1..Len(g) |-> Pick(g[i], J, 1)]

\* The column positions of a grid (none when it has no row).
Cols(g) == IF g = <<>> THEN {} ELSE 1..Len(g[1])

\* clean_dataframe: every cell cleaned, then the rows that are missing
\* throughout dropped, then the columns that are missing throughout.
clean_dataframe(g) ==
    LET mapped == [i \in 1..Len(g) |-> [j \in 1..Len(g[i]) |-> clean_cell(g[i][j])]]
        rows   == SelectSeq(mapped,
                            LAMBDA row : \E j \in 1..Len(row) : row[j] # Missing)
    IN  KeepCols(rows, {j \in Cols(rows) :
                           \E i \in 1..Len(rows) : rows[i][j] # Missing})

\* row_char_count of drop_short_rows: the length of the joined, trimmed
\* texts of the cells that are not missing.
RECURSIVE row_char_count(_)
row_char_count(row) ==
    IF row = <<>> THEN 0
    ELSE (IF Head(row) = Missing THEN 0 ELSE Len(Strip(Head(row).text)))
         + row_char_count(Tail(row))

\* Mutant of drop_short_rows: a row of char_limit + 1 characters is dropped
\* as well.
drop_short_rows_one_more(g, char_limit) ==
    SelectSeq(g, LAMBDA row : row_char_count(row) > char_limit + 1)

drop_short_rows(g, char_limit) ==
    SelectSeq(g, LAMBDA row : row_char_count(row) > char_limit)

\* df.loc[:, df.isnull().mean() < 0.7]: the columns whose fraction of
\* missing cells is below 0.7 (of a grid without rows the mean is NaN and
\* no column is kept).
sparsity_filter(g) ==
    KeepCols(g, {j \in Cols(g) :
                    10 * Cardinality({i \in 1..Len(g) : g[i][j] = Missing})
                        < 7 * Len(g)})

\* The cleaning of preprocess_excel_and_extract.
clean(g) == sparsity_filter(drop_short_rows(clean_dataframe(g), 2))

(***************************************************************************)
(* SpecClean: the cleaning on drawn loaded sheets, and once more on its    *)
(* own result.                                                             *)
(***************************************************************************)
\* The number of rows of a drawn loaded sheet.
MaxRows == 4

\* The cells of column 0: a clean text, a text that cleaning changes, a
\* text of two characters, a number, nothing.
LabelCells ==
    { Text("abc"), Text(" ab|c~^ "), Text("ab"), Number("18"), Missing }

\* The cells of column 1.
NoteCells == { Text("xyz"), Missing }

RawGrids ==
    UNION { [1..n -> {<<a, b>> : a \in LabelCells, b \in NoteCells}] :
            n \in 1..MaxRows }

InitClean ==
    /\ pc = "loaded"
    /\ raw_grid \in RawGrids
    /\ cleaned_grid = <<>>
    /\ cleaned_twice = <<>>
    /\ IdleCalc
    /\ IdleLetter
    /\ IdleId
    /\ IdleSheet
    /\ IdleIds
    /\ IdleTwice
    /\ IdleUi
    /\ IdleLocate
    /\ IdleWindow

Clean ==
    /\ pc = "loaded"
    /\ cleaned_grid' = clean(raw_grid)
    /\ pc' = "cleaned"
    /\ UNCHANGED <<calc_vars, letter_vars, id_vars, sheet_vars, ids_vars,
                   twice_vars, raw_grid, cleaned_twice, ui_vars, locate_vars, window_vars>>

CleanAgain ==
    /\ pc = "cleaned"
    /\ cleaned_twice' = clean(cleaned_grid)
    /\ pc' = "cleaned_twice"
    /\ UNCHANGED <<calc_vars, letter_vars, id_vars, sheet_vars, ids_vars,
                   twice_vars, raw_grid, cleaned_grid, ui_vars, locate_vars, window_vars>>

NextClean == Clean \/ CleanAgain

SpecClean == InitClean /\ [][NextClean]_vars

(***************************************************************************)
(* The file-name check (filename_validator.py)                             *)
(***************************************************************************)

UpperCh(c) ==
    IF IsLetter(c)
    THEN LET i == CHOOSE k \in 1..Len(Letters) : Ch(Letters, k) = c
         IN  Ch(Capitals, i)
    ELSE c

RECURSIVE Upper(_)

\* str.upper()
Upper(s) == IF s = "" THEN "" ELSE UpperCh(Head(s)) \o Upper(Tail(s))

IsCapital(c) == \E i \in 1..Len(Capitals) : Ch(Capitals, i) = c

\* the positions of s that hold the symbol c
Positions(s, c) == {i \in 1..Len(s) : Ch(s, i) = c}

\* os.path.basename: what follows the last "/"
basename(p) ==
    IF Positions(p, "/") = {} THEN p
    ELSE SubSeq(p, Max(Positions(p, "/")) + 1, Len(p))

\* os.path.splitext on a base name: the extension starts at the last dot,
\* unless nothing but dots stands before it
splitext(b) ==
    IF Positions(b, ".") = {} THEN [name_part |-> b, extension |-> ""]
    ELSE LET dot == Max(Positions(b, "."))
         IN  IF \A i \in 1..(dot - 1) : Ch(b, i) = "."
             THEN [name_part |-> b, extension |-> ""]
             ELSE [name_part |-> SubSeq(b, 1, dot - 1),
                   extension |-> SubSeq(b, dot, Len(b))]

\* "$" of re.match matches at the end of the text and also just before a line
\* feed that ends the text: what has to match the rest of the pattern
before_dollar(s) ==
    {s} \cup (IF Len(s) > 0 /\ Ch(s, Len(s)) = "\n"
               THEN {SubSeq(s, 1, Len(s) - 1)}
               ELSE {})

\* re.match(r'^\d{4}$', s) and re.match(r'^\d{3}$', s), by the count n
match_digits(s, n) == \E t \in before_dollar(s) : Len(t) = n /\ AllDigits(t)

\* re.match(r'^[A-Za-z]{2,4}$', s)
match_dept(s) ==
    \E t \in before_dollar(s) :
        /\ Len(t) >= 2
        /\ Len(t) <= 4
        /\ \A i \in 1..Len(t) : IsLetter(Ch(t, i)) \/ IsCapital(Ch(t, i))

\* re.match(r'^[LT]\d+$', s)
match_section(s) ==
    \E t \in before_dollar(s) :
        /\ Len(t) >= 2
        /\ Ch(t, 1) \in {"L", "T"}
        /\ AllDigits(SubSeq(t, 2, Len(t)))

NoComponents ==
    [semester |-> "", department |-> "", course |-> "", section |-> "",
     extension |-> ""]

\* validate_filename_format: (success, message, components); the message is
\* modelled by its leading words
validate_filename_format(name) ==
    LET se         == splitext(basename(name))
        extension  == se.extension
        parts      == Split(se.name_part, "-")
        c0         == [NoComponents EXCEPT !.extension = Lower(extension)]
        c1         == [c0 EXCEPT !.semester = parts[1]]
        c2         == [c1 EXCEPT !.department = Upper(parts[2])]
        c3         == [c2 EXCEPT !.course = parts[3]]
        c4         == [c3 EXCEPT !.section = Upper(parts[4])]
        failure(msg, c) == [success |-> FALSE, message |-> msg, components |-> c]
    IN  IF Lower(extension) \notin {".xlsx", ".xls"}
        THEN failure("Invalid file extension", c0)
        ELSE IF Len(parts) # 4
        THEN failure("Invalid filename structure", c0)
        ELSE IF ~match_digits(parts[1], 4)
        THEN failure("Invalid semester code", c0)
        ELSE IF ~match_dept(parts[2])
        THEN failure("Invalid department code", c1)
        ELSE IF ~match_digits(parts[3], 3)
        THEN failure("Invalid course code", c2)
        ELSE IF ~match_section(Upper(parts[4]))
        THEN failure("Invalid section code", c3)
        ELSE [success |-> TRUE, message |-> "Valid filename format",
              components |-> c4]

(***************************************************************************)
(* SpecFile: validate_filename_format on drawn file names                  *)
(***************************************************************************)

Folders == {"", "in/", "v1.2/"}

SemesterCodes == {"2515", "251", "25155", "25x5", "", "2515\n"}

DeptCodes == {"EE", "ee", "Bio", "MGMT", "E", "MGMTS", "E1"}

CourseCodes == {"437", "43", "4370", "4a7"}

SectionCodes == {"L1", "T20", "l1", "t2", "L", "A1", "1L", "L1a", "L1.5", "L1\n"}

Extensions == {".xlsx", ".xls", ".XLSX", ".Xls", ".csv", ".xlsxx", ""}

\* the names built of four parts, and names with a part missing or added
FileNames ==
    {f \o s \o "-" \o d \o "-" \o c \o "-" \o t \o e :
        f \in Folders, s \in SemesterCodes, d \in DeptCodes,
        c \in CourseCodes, t \in SectionCodes, e \in Extensions}
    \cup {s \o "-" \o d \o "-" \o c \o e :
            s \in SemesterCodes, d \in DeptCodes, c \in CourseCodes,
            e \in Extensions}
    \cup {s \o "-" \o d \o "-" \o c \o "-" \o t \o "-" \o t \o e :
            s \in {"2515"}, d \in {"EE"}, c \in CourseCodes,
            t \in SectionCodes, e \in Extensions}
    \cup {"", ".xlsx", "..xlsx", "2515-EE-437-L1", "2515_EE_437_L1.xlsx",
          "2515-EE-437-L1.xlsx/", "2515-EE-437-.xlsx",
          "2515-EE\n-437\n-L1.xlsx", "2515\n\n-EE-437-L1.xlsx",
          "2515-EE-437-L1.xlsx\n", "\n2515-EE-437-L1.xlsx"}

InitFile ==
    /\ pc = "named"
    /\ filename \in FileNames
    /\ file_result = NotRun
    /\ IdleCalc
    /\ IdleLetter
    /\ IdleId
    /\ IdleSheet
    /\ IdleIds
    /\ IdleTwice
    /\ IdleClean
    /\ IdleFlow
    /\ IdleLocate
    /\ IdleWindow

ValidateFilename ==
    /\ pc = "named"
    /\ file_result' = validate_filename_format(filename)
    /\ pc' = "validated"
    /\ UNCHANGED <<calc_vars, letter_vars, id_vars, sheet_vars, ids_vars,
                   twice_vars, clean_vars, filename, flow_vars, locate_vars, window_vars>>

NextFile == ValidateFilename

SpecFile == InitFile /\ [][NextFile]_vars

(***************************************************************************)
(* The interface flows (interface.py): the data.py subprocess,             *)
(* DataProcessor, BatchDataProcessor and the handlers of the window        *)
(***************************************************************************)

\* str(e) of the ValueError r of validate_and_format_student_id
id_error_text(r) ==
    IF r.error = "Student ID cannot be empty or null" THEN r.error
    ELSE IF r.error = "Invalid student email format"
    THEN r.error \o ": " \o r.named
         \o ". Expected format: xx12345@st.habib.edu.pk (where xx are initials and 12345 is student number)"
    ELSE IF r.error = "Invalid domain in student email"
    THEN r.error \o ": " \o r.named \o ". Must end with @st.habib.edu.pk"
    ELSE r.error \o ": '" \o r.named
         \o "'. Expected format examples: 'hm08298', 'ab12345', or 'hm08298@st.habib.edu.pk'"

RECURSIVE id_error_lines(_)

\* "\n".join(invalid_ids) of validate_all_student_ids, each line after a
\* line feed: one line for each rejected identifier
id_error_lines(ids) ==
    IF ids = <<>> THEN ""
    ELSE "\nRow with ID '" \o Head(ids) \o "': "
         \o id_error_text(validate_and_format_student_id(Head(ids)))
         \o id_error_lines(Tail(ids))

\* error_message of validate_all_student_ids
id_error_message(ids) ==
    "[!] Invalid student ID format(s) found:\n" \o id_error_lines(ids)
    \o "\n\nValid formats:"
    \o "\n- hm08298 (initials + 5-digit number)"
    \o "\n- ab12345 (any 2 letters + 5 digits)"
    \o "\n- hm08298@st.habib.edu.pk (full email format)"
    \o "\n\nPlease fix the student IDs in your Excel file and try again."

\* str(e) of what extract_clo_plo_data raised
str_of_error(r) ==
    IF r.error = "ValueError" THEN id_error_message(r.invalid_ids)
    ELSE "single positional indexer is out-of-bounds"

NoJson == [present |-> FALSE]

\* What preprocess_excel_and_extract prints once the sheet is loaded and
\* cleaned, by the outcome r of extract_clo_plo_data: the printed lines and,
\* after them, the JSON document if the extraction got that far.
extraction_stdout(r) ==
    IF r.ok
    THEN [printed |-> "[OK] Loaded Excel file\n"
                      \o "[OK] Successfully validated and formatted student IDs\n",
          json |-> [present |-> TRUE,
                    clos |-> r.clos,
                    clo_to_plo |-> r.clo_to_plo,
                    clo_assessments |-> r.clo_assessments,
                    student_scores |-> json_student_scores(r.student_scores)]]
    ELSE [printed |-> "[OK] Loaded Excel file\n"
                      \o (IF r.error = "ValueError"
                          THEN "\n" \o str_of_error(r) \o "\n"
                          ELSE "")
                      \o "[!] Data extraction failed: "
                      \o str_of_error(r) \o "\n",
          json |-> NoJson]

\* What `python data.py <file>` writes to its standard output
\* (preprocess_excel_and_extract).  The process ends with exit status 0 in
\* every case.
preprocess_excel_and_extract(file) ==
    IF ~file.readable
    THEN [printed |-> "[!] Failed to load Excel: File is not a zip file\n",
          json |-> NoJson]
    ELSE extraction_stdout(extract_clo_plo_data(Sheet(file.choice)))

\* subprocess.run([sys.executable, script_path, file_path], check=True, ...):
\* the completed process, or the exception raised (CalledProcessError, or
\* str(e) of another exception)
subprocess_run(file) ==
    IF file.launch = "OSError"
    THEN [raised |-> "[Errno 2] No such file or directory", stderr |-> "",
          stdout |-> [printed |-> "", json |-> NoJson]]
    ELSE IF file.launch = "CalledProcessError"
    THEN [raised |-> "CalledProcessError", stderr |-> file.stderr,
          stdout |-> [printed |-> "", json |-> NoJson]]
    ELSE [raised |-> "", stderr |-> "",
          stdout |-> preprocess_excel_and_extract(file)]

\* output = result.stdout if result.stdout else "Processing completed successfully"
output_of(stdout) ==
    IF stdout.printed = "" /\ ~stdout.json.present
    THEN [printed |-> "Processing completed successfully", json |-> NoJson]
    ELSE stdout

\* error_msg = e.stderr if e.stderr else str(e)
error_msg_of(result) ==
    IF result.stderr # "" THEN result.stderr
    ELSE "Command returned non-zero exit status 1."

IdErrorMark == "Invalid student ID format"

\* The calculations of _process_single_file_results and
\* _process_calculation_results on the parsed document: the result, or
\* str(e) of the exception raised.
calculation_results(data, clo) ==
    IF ~calculate_plo_scores(clo, data.clo_to_plo).ok
    THEN [ok |-> FALSE, error |-> "float division by zero"]
    ELSE [ok |-> TRUE, students_count |-> Cardinality(DOMAIN clo)]

\* The part _process_single_file_results and _process_calculation_results
\* share: the JSON document is looked for from the first "{" of the output
\* and the calculations are run on it.
process_results(output) ==
    IF Contains(output.printed, "{")
    THEN [ok |-> FALSE, error |-> "Expecting property name enclosed in double quotes"]
    ELSE IF ~output.json.present
    THEN [ok |-> FALSE, error |-> "No JSON found in output"]
    ELSE calculation_results(
             output.json,
             calculate_clo_scores(output.json.clo_assessments,
                                  output.json.student_scores))

\* extract_course_info(file_name) as BatchDataProcessor.run uses it: the text
\* emitted through file_progress
display_text(file_name) ==
    LET v == validate_filename_format(file_name)
    IN  IF v.success
        THEN "Processing: " \o v.components.department \o "-"
             \o v.components.course \o " Section " \o v.components.section
        ELSE "Processing: " \o file_name

\* One iteration of BatchDataProcessor.run, from the outcome of the
\* subprocess and of the calculation: what is emitted through file_completed.
completed_file(file_name, result, calc) ==
    LET completed(success, message) ==
            [file_name |-> file_name, success |-> success, message |-> message]
    IN  IF result.raised = "CalledProcessError"
        THEN IF Contains(error_msg_of(result), IdErrorMark)
             THEN completed(FALSE, "Invalid student ID format - check file")
             ELSE completed(FALSE, "Processing failed: " \o error_msg_of(result))
        ELSE IF result.raised # ""
        THEN completed(FALSE, "Unexpected error: " \o result.raised)
        ELSE IF calc.ok
        THEN completed(TRUE, "Processed successfully")
        ELSE IF Contains(calc.error, IdErrorMark)
        THEN completed(FALSE, "Invalid student ID format")
        ELSE completed(FALSE, "Calculation failed: " \o calc.error)

process_output(file_name, result) ==
    completed_file(file_name, result, process_results(output_of(result.stdout)))

\* One iteration of BatchDataProcessor.run for one file
process_file(file) == process_output(file.name, subprocess_run(file))

\* the variant of progress_value that rounds the share of one file first
progress_value_by_share(done, total_files) == done * (100 \div total_files)

\* int(((i + 1) / total_files) * 100); for fewer than 50 files the float
\* product is the integer quotient
progress_value(done, total_files) == (done * 100) \div total_files

\* DataProcessor.run from the outcome of the subprocess: what is emitted
\* through finished
data_processor_emits(result, output) ==
    LET emitted(success, message, json) ==
            [success |-> success, printed |-> message, json |-> json]
    IN  IF result.raised = "CalledProcessError"
        THEN emitted(FALSE, "Processing failed: " \o error_msg_of(result), NoJson)
        ELSE IF result.raised # ""
        THEN emitted(FALSE, "Unexpected error: " \o result.raised, NoJson)
        ELSE emitted(TRUE, output.printed, output.json)

data_processor_result(result) ==
    data_processor_emits(result, output_of(result.stdout))

\* DataProcessor.run
data_processor_run(file, exists) ==
    IF ~exists
    THEN [success |-> FALSE,
          printed |-> "Processing script 'data.py' not found",
          json |-> NoJson]
    ELSE data_processor_result(subprocess_run(file))

\* The parameters of export_clo_plo_results (clo_scores, plo_scores,
\* data_dict, output_dir = None); the last one has a default
ExportParameters == <<"clo_scores", "plo_scores", "data_dict", "output_dir">>

\* The positional arguments _process_calculation_results and
\* _process_single_file_results pass to export_clo_plo_results
ExportArguments ==
    <<"clo_scores", "plo_scores", "grades", "data_dict", "file_path">>

\* The call export_clo_plo_results(*arguments): Python binds the arguments
\* to the parameters before the body runs and raises TypeError when there
\* are too many or too few; otherwise the body calls create_excel_output,
\* and writer_fails tells whether that raises
export_call(arguments, writer_fails) ==
    IF \/ Len(arguments) > Len(ExportParameters)
       \/ Len(arguments) < Len(ExportParameters) - 1
    THEN [ok |-> FALSE,
          error |-> "export_clo_plo_results() takes from 3 to 4 positional arguments"]
    ELSE IF writer_fails
    THEN [ok |-> FALSE, error |-> "create_excel_output failed"]
    ELSE [ok |-> TRUE, error |-> ""]

\* The try around the export in _process_single_file_results and in
\* _process_calculation_results: excel_updated of the summary, and the
\* branch of the status line
export_clo_plo_results(writer_fails) ==
    export_call(ExportArguments, writer_fails).ok

\* on_data_processed from the outcome of _process_calculation_results and of
\* the Excel export: the dialog shown and the status line
data_processed_shows(signal, calc, excel_updated) ==
    LET shown(kind, text, line) ==
            [dialog |-> [kind |-> kind, text |-> text], status |-> line]
    IN  IF ~signal.success
        THEN IF Contains(signal.printed, IdErrorMark)
             THEN shown("student_id", signal.printed,
                        "Student ID validation failed - check format")
             ELSE shown("none", "", "Processing failed: " \o signal.printed)
        ELSE IF calc.ok
        THEN IF excel_updated
             THEN shown("success", "", "CLO/PLO calculation complete. Results appended")
             ELSE shown("none", "", "CLO/PLO calculation complete. See terminal output. (Excel append failed)")
        ELSE IF Contains(calc.error, IdErrorMark)
        THEN shown("student_id", calc.error, "Student ID validation failed")
        ELSE shown("none", "", "Calculation failed: " \o calc.error)

\* on_data_processed(success, message); excel_updated tells whether the call
\* of export_clo_plo_results returned
on_data_processed(signal, excel_updated) ==
    data_processed_shows(
        signal,
        process_results([printed |-> signal.printed, json |-> signal.json]),
        excel_updated)

(***************************************************************************)
(* SpecUi: the single-file flow and the batch flow on drawn files          *)
(***************************************************************************)

MaxFiles == 3

GoodChoice ==
    [plo1 |-> "1;1.0", desc2 |-> "Analyse the results", anchor |-> "Modules",
     map1 |-> "1;15", max1 |-> "20", map2 |-> Null, s11 |-> "18",
     s12 |-> "5", id1 |-> "hm08298", second |-> "ab12345"]

FileKind(launch, readable, choice, stderr) ==
    [launch |-> launch, readable |-> readable, choice |-> choice,
     stderr |-> stderr]

\* What a file does to the subprocess: a good sheet, a sheet with a rejected
\* identifier, a sheet whose PLO weights are zero, a file that cannot be
\* loaded, a subprocess that ends with a non-zero status (with and without
\* the identifier text on its standard error), and a subprocess that cannot
\* be started.
FileKinds ==
    { FileKind("", TRUE, GoodChoice, ""),
      FileKind("", TRUE, [GoodChoice EXCEPT !.id1 = "12345"], ""),
      FileKind("", TRUE, [GoodChoice EXCEPT !.plo1 = "1;0"], ""),
      FileKind("", FALSE, GoodChoice, ""),
      FileKind("CalledProcessError", TRUE, GoodChoice, ""),
      FileKind("CalledProcessError", TRUE, GoodChoice,
               "ValueError: [!] Invalid student ID format(s) found:"),
      FileKind("OSError", TRUE, GoodChoice, "") }

\* The files of one folder: their names are distinct.
FileNameAt(k) ==
    IF k = 3 THEN "notes.xlsx"
    ELSE "2515-EE-437-L" \o Ch(Digits, k + 1) \o ".xlsx"

FileLists ==
    UNION { { [k \in 1..n |-> [name     |-> FileNameAt(k),
                               launch   |-> kinds[k].launch,
                               readable |-> kinds[k].readable,
                               choice   |-> kinds[k].choice,
                               stderr   |-> kinds[k].stderr]] :
                kinds \in [1..n -> FileKinds] } :
            n \in 1..MaxFiles }

\* The window holds the selected files, one file for the single-file flow,
\* and nothing was emitted yet.
InitUi ==
    /\ pc \in {"single_ready", "batch_ready"}
    /\ file_paths \in FileLists
    /\ pc = "single_ready" => Len(file_paths) = 1
    /\ script_exists \in BOOLEAN
    /\ file_index = 0
    /\ successful_files = <<>>
    /\ failed_files = <<>>
    /\ results_summary = EmptyMap
    /\ file_progress = <<>>
    /\ file_completed = <<>>
    /\ progress = <<>>
    /\ finished = <<>>
    /\ dialog = NoDialog
    /\ status = ""
    /\ IdleCalc
    /\ IdleLetter
    /\ IdleId
    /\ IdleSheet
    /\ IdleIds
    /\ IdleTwice
    /\ IdleClean
    /\ IdleFile
    /\ IdleLocate
    /\ IdleWindow

ui_frame == <<calc_vars, letter_vars, id_vars, sheet_vars, ids_vars,
              twice_vars, clean_vars, file_vars, locate_vars, window_vars>>

\* DataProcessor.run
RunDataProcessor ==
    /\ pc = "single_ready"
    /\ finished' = Append(finished, data_processor_run(file_paths[1], script_exists))
    /\ status' = "Starting data processing..."
    /\ pc' = "single_finished"
    /\ UNCHANGED <<ui_frame, file_paths, script_exists, file_index,
                   successful_files, failed_files, results_summary,
                   file_progress, file_completed, progress, dialog>>

\* on_data_processed, connected to DataProcessor.finished
OnDataProcessed ==
    /\ pc = "single_finished"
    /\ \E writer_fails \in BOOLEAN :
       \E r \in {on_data_processed(finished[1],
                                   export_clo_plo_results(writer_fails))} :
          /\ dialog' = r.dialog
          /\ status' = r.status
    /\ pc' = "single_done"
    /\ UNCHANGED <<ui_frame, file_paths, script_exists, file_index,
                   successful_files, failed_files, results_summary,
                   file_progress, file_completed, progress, finished>>

\* BatchDataProcessor.run: the script is missing
BatchScriptMissing ==
    /\ pc = "batch_ready"
    /\ ~script_exists
    /\ finished' = Append(finished,
                          [success |-> FALSE,
                           printed |-> "Processing script 'data.py' not found",
                           json |-> NoJson])
    /\ pc' = "batch_done"
    /\ UNCHANGED <<ui_frame, file_paths, script_exists, file_index,
                   successful_files, failed_files, results_summary,
                   file_progress, file_completed, progress, dialog, status>>

\* BatchDataProcessor.run: the loop is entered
BatchBegin ==
    /\ pc = "batch_ready"
    /\ script_exists
    /\ pc' = "batch_loop"
    /\ UNCHANGED <<ui_frame, flow_vars>>

\* BatchDataProcessor.run: one pass of the loop
BatchProcessFile ==
    /\ pc = "batch_loop"
    /\ file_index < Len(file_paths)
    /\ \E c \in {process_file(file_paths[file_index + 1])},
          writer_fails \in BOOLEAN :
          /\ file_completed' = Append(file_completed, c)
          /\ successful_files' =
                IF c.success THEN Append(successful_files, c.file_name)
                ELSE successful_files
          /\ failed_files' =
                IF c.success THEN failed_files
                ELSE Append(failed_files, c.file_name)
          /\ results_summary' =
                IF c.success
                THEN Put(results_summary, c.file_name,
                         [excel_updated |->
                              export_clo_plo_results(writer_fails)])
                ELSE results_summary
    /\ file_progress' =
          Append(file_progress, display_text(file_paths[file_index + 1].name))
    /\ progress' = Append(progress, progress_value(file_index + 1, Len(file_paths)))
    /\ file_index' = file_index + 1
    /\ UNCHANGED <<pc, ui_frame, file_paths, script_exists, finished, dialog, status>>

\* BatchDataProcessor.run: the summary after the loop
BatchFinish ==
    /\ pc = "batch_loop"
    /\ file_index = Len(file_paths)
    /\ finished' = Append(finished,
                          [success |-> TRUE,
                           printed |-> "Batch Processing Complete!",
                           json |-> NoJson])
    /\ pc' = "batch_done"
    /\ UNCHANGED <<ui_frame, file_paths, script_exists, file_index,
                   successful_files, failed_files, results_summary,
                   file_progress, file_completed, progress, dialog, status>>

NextUi ==
    \/ RunDataProcessor
    \/ OnDataProcessed
    \/ BatchScriptMissing
    \/ BatchBegin
    \/ BatchProcessFile
    \/ BatchFinish

FlowEnded == pc \in {"single_done", "batch_done"}

\* A thread that was started runs to the end of run(), and a queued signal is
\* delivered to its handler: steps keep being taken until the flow has ended.
\* (A step is enabled exactly when the flow has not ended, so this is weak
\* fairness of NextUi.)
SpecUi ==
    InitUi /\ [][NextUi]_vars /\ ([]<>FlowEnded \/ []<><<NextUi>>_vars)

(***************************************************************************)
(* SpecLocate: find_data_rows and extract_clo_plo_data on cleaned grids    *)
(* whose first column holds the word "module" at any row, more than once,  *)
(* inside a longer word, or not at all.                                    *)
(***************************************************************************)
\* The rows find_data_rows returns: module_row, clo_row, max_row and
\* data_start_row.
data_rows_from(module_row) ==
    <<module_row, module_row + 1, module_row + 2, module_row + 3>>

data_rows_of(d) == data_rows_from(find_data_rows(d))

MinLocateRows == 3

MaxLocateRows == 5

\* The columns of a drawn grid after the first; one in three cells of a row
\* has the form of a mapping entry.
LocateColumns == 1..3

\* The first-column texts a row is drawn with; "id" stands for a student
\* identifier that names the row.
LocateLabels == {"Modules", "The MODULE:", "Submodules", "id"}

LabelText(label, i) ==
    IF label = "id" THEN "hm0829" \o Ch(Digits, i + 1) ELSE label

\* The cell of row i (counted from 1) and column c: every cell names its
\* row; in one column of each row it has the form of a mapping entry with
\* weight 10, elsewhere it is a number.
LocateCell(i, c) ==
    IF (i + c) % 3 = 0
    THEN Ch(Digits, i + 1) \o ";10"
    ELSE Ch(Digits, i + 1) \o Ch(Digits, c + 1)

LocateGrid(labels) ==
    [i \in 1..Len(labels) |->
        <<LabelText(labels[i], i)>>
        \o [c \in LocateColumns |-> LocateCell(i, c)]]

LocateGrids ==
    {LocateGrid(labels) :
        labels \in UNION {[1..n -> LocateLabels] :
                             n \in MinLocateRows..MaxLocateRows}}

InitLocate ==
    /\ pc = "grid"
    /\ df \in {g \in LocateGrids : Cleaned(g)}
    /\ extraction = NotRun
    /\ data_rows = <<>>
    /\ IdleCalc
    /\ IdleLetter
    /\ IdleId
    /\ IdleIds
    /\ IdleTwice
    /\ IdleClean
    /\ IdleUi
    /\ IdleWindow

locate_frame == <<df, calc_vars, letter_vars, id_vars, ids_vars, twice_vars,
                  clean_vars, ui_vars, window_vars>>

\* module_row, clo_row, max_row, data_start_row = find_data_rows(df)
FindDataRows ==
    /\ pc = "grid"
    /\ data_rows' = data_rows_of(df)
    /\ pc' = "located"
    /\ UNCHANGED <<extraction, locate_frame>>

\* The rest of extract_clo_plo_data returns its four maps.
ExtractRows ==
    /\ pc = "located"
    /\ \E r \in {extract_located(df, data_rows[1])} :
          /\ r.ok
          /\ extraction' = r
    /\ pc' = "extracted"
    /\ UNCHANGED <<data_rows, locate_frame>>

\* The rest of extract_clo_plo_data raises.
ExtractRowsFails ==
    /\ pc = "located"
    /\ \E r \in {extract_located(df, data_rows[1])} :
          /\ ~r.ok
          /\ extraction' = r
    /\ pc' = "raised"
    /\ UNCHANGED <<data_rows, locate_frame>>

NextLocate ==
    \/ FindDataRows
    \/ ExtractRows
    \/ ExtractRowsFails

SpecLocate == InitLocate /\ [][NextLocate]_vars

(***************************************************************************)
(* SpecAssess: the assessment loop of extract_clo_plo_data on drawn        *)
(* module-name, CLO-mapping and max-score rows.                            *)
(***************************************************************************)
MaxAssessCols == 3

\* The mapping cells a column is drawn with: missing, without separator,
\* well formed for two CLOs, with a weight that is no number, with three
\* parts.
MappingCells == {Null, "Quiz", "1;15", "2;5", "2;x", "1;2;3"}

MaxScoreCells == {"20", "abc"}

AssessRows(mapping, max_score) ==
    << <<"Modules">> \o [j \in 1..Len(mapping) |-> "Q" \o Ch(Digits, j + 1)],
       <<"CLO">> \o mapping,
       <<"Max">> \o max_score >>

AssessGrids ==
    UNION {{AssessRows(mapping, max_score) :
               mapping \in [1..n -> MappingCells],
               max_score \in [1..n -> MaxScoreCells]} :
           n \in 1..MaxAssessCols}

InitAssess ==
    /\ pc = "rows"
    /\ df \in AssessGrids
    /\ extraction = NotRun
    /\ IdleCalc
    /\ IdleLetter
    /\ IdleId
    /\ IdleAux

\* for i, (module, mapping, max_score) in enumerate(zip(...)): ...
AssessColumns ==
    /\ pc = "rows"
    /\ clo_assessments' =
           collect_assessments(Tail(df[1]), Tail(df[2]), Tail(df[3]),
                               NCols(df) - 1)
    /\ pc' = "assessed"
    /\ UNCHANGED <<clos, clo_to_plo, student_scores, clo_scores, plo_scores,
                   grades, clo_weights, letter_vars, id_vars, sheet_vars,
                   aux_vars>>

NextAssess == AssessColumns

SpecAssess == InitAssess /\ [][NextAssess]_vars

(***************************************************************************)
(* SpecDefine: the CLO-definition loop of extract_clo_plo_data on drawn    *)
(* rows, rows that name the same CLO included.                             *)
(***************************************************************************)
MaxDefineRows == 2

DefineLabels == {"CLO 1", "CLO 2", "Notes"}

\* Missing, ten characters, eleven characters.
DescriptionCells == {Null, "Apply them", "Apply these"}

\* Missing, two well-formed mappings, a weight that is no number.
PloCells == {Null, "1;0.5", "3;1", "2;x"}

\* A row of the grid: the level cell names the row.
DefineRow(i, label, description, plo_cell) ==
    <<label, description, "C" \o Ch(Digits, i + 1), plo_cell>>

DefineGrids ==
    UNION {{[i \in 1..n |-> DefineRow(i, label[i], description[i], plo_cell[i])] :
               label \in [1..n -> DefineLabels],
               description \in [1..n -> DescriptionCells],
               plo_cell \in [1..n -> PloCells]} :
           n \in 1..MaxDefineRows}

InitDefine ==
    /\ pc = "rows"
    /\ df \in DefineGrids
    /\ extraction = NotRun
    /\ IdleCalc
    /\ IdleLetter
    /\ IdleId
    /\ IdleAux

\* for i in range(len(df)): ... ; clos = all_defined_clos
DefineClos ==
    /\ pc = "rows"
    /\ \E r \in {define_clos(df, Len(df))} :
          /\ clos' = r.clos
          /\ clo_to_plo' = r.clo_to_plo
    /\ pc' = "defined"
    /\ UNCHANGED <<clo_assessments, student_scores, clo_scores, plo_scores,
                   grades, clo_weights, letter_vars, id_vars, sheet_vars,
                   aux_vars>>

NextDefine == DefineClos

SpecDefine == InitDefine /\ [][NextDefine]_vars

(***************************************************************************)
(* SpecSparse: the cleaning on loaded sheets of 5 and of 10 rows whose     *)
(* second column is missing in any of its cells.                           *)
(***************************************************************************)
SparseRowCounts == {5, 10}

SparseGrids ==
    UNION { [1..n -> {<<Text("abc"), b>> : b \in NoteCells}] :
            n \in SparseRowCounts }

InitSparse ==
    /\ pc = "loaded"
    /\ raw_grid \in SparseGrids
    /\ cleaned_grid = <<>>
    /\ cleaned_twice = <<>>
    /\ IdleCalc
    /\ IdleLetter
    /\ IdleId
    /\ IdleSheet
    /\ IdleIds
    /\ IdleTwice
    /\ IdleUi
    /\ IdleLocate
    /\ IdleWindow

SpecSparse == InitSparse /\ [][NextClean]_vars

(***************************************************************************)
(* SpecWindow: the main window of src/interface.py.  The user selects      *)
(* files and folders and presses the process button; the four background   *)
(* workers report through their finished signals.                          *)
(***************************************************************************)
\* The files the dialogs can reach: names that pass and that fail the
\* file-name check, with content that has rows, has none or cannot be read.
DiskFiles ==
    << [path |-> "in/2515-EE-437-L1.xlsx",  content |-> "rows"],
       [path |-> "in/2515-EE-437-L2.xlsx",  content |-> "empty"],
       [path |-> "in/2515-CS-101-T1.xls",   content |-> "unreadable"],
       [path |-> "in/notes.xlsx",           content |-> "rows"],
       [path |-> "in/2515-EE-437-L1.csv",   content |-> "rows"],
       [path |-> "new/2412-CS-101-T2.xlsx", content |-> "rows"],
       [path |-> "old/summary.xlsx",        content |-> "rows"],
       [path |-> "old/2515-EE-43-L1.xls",   content |-> "rows"],
       [path |-> "docs/readme.txt",         content |-> "rows"] >>

DiskPaths == {DiskFiles[i].path : i \in 1..Len(DiskFiles)}

DiskFolders == {BeforeFirst(p, "/") : p \in DiskPaths}

\* What pd.read_excel finds in the file.
content_of(file_path) ==
    DiskFiles[CHOOSE i \in 1..Len(DiskFiles) : DiskFiles[i].path = file_path].content

\* folder.glob(pattern) for the patterns '*.xlsx' and '*.xls', as paths.
glob(folder_path, extension) ==
    LET found == SelectSeq(DiskFiles,
                     LAMBDA f : /\ BeforeFirst(f.path, "/") = folder_path
                                /\ EndsWith(f.path, extension))
    IN  [i \in 1..Len(found) |-> found[i].path]

\* The file name of the path passes validate_filename_format.
is_valid_name(file_path) == validate_filename_format(basename(file_path)).success

\* FileProcessor.run: what it emits through finished.
file_processor_run(file_path) ==
    LET file_ext == Lower(splitext(basename(file_path)).extension)
    IN  IF ~is_valid_name(file_path)
        THEN [success |-> FALSE, message |-> "Invalid filename format!"]
        ELSE IF file_ext = ".csv"
        THEN [success |-> FALSE,
              message |-> "CSV files are not supported for result appending."]
        ELSE IF file_ext \notin {".xlsx", ".xls"}
        THEN [success |-> FALSE, message |-> "Unsupported file format."]
        ELSE IF content_of(file_path) = "unreadable"
        THEN [success |-> FALSE, message |-> "Error processing file"]
        ELSE IF content_of(file_path) = "empty"
        THEN [success |-> FALSE, message |-> "File is empty"]
        ELSE [success |-> TRUE, message |-> "File validation successful!"]

\* Mutant of validate_batch_filenames: every file is taken as valid.
validate_batch_filenames_all(paths) ==
    [valid_files |-> paths, invalid_files |-> <<>>]

\* validate_batch_filenames: the paths whose file name passes, and the rest.
validate_batch_filenames(paths) ==
    [valid_files   |-> SelectSeq(paths, LAMBDA p : is_valid_name(p)),
     invalid_files |-> SelectSeq(paths, LAMBDA p : ~is_valid_name(p))]

\* BatchFileProcessor.run after the validation of the names: the files whose
\* first rows can be read and are not empty.
batch_content_check(validated) ==
    LET content_valid_files ==
            SelectSeq(validated.valid_files,
                      LAMBDA p : content_of(p) = "rows")
    IN  IF validated.valid_files = <<>>
        THEN [success |-> FALSE,
              message |-> "No files with valid filename format found!",
              file_paths |-> <<>>]
        ELSE IF content_valid_files = <<>>
        THEN [success |-> FALSE,
              message |-> "No files with valid content found (filename validation passed)",
              file_paths |-> <<>>]
        ELSE [success |-> TRUE,
              message |-> "files ready for processing",
              file_paths |-> content_valid_files]

\* BatchFileProcessor.run: what it emits through finished.
batch_file_processor_run(folder_path) ==
    LET excel_files == glob(folder_path, ".xlsx") \o glob(folder_path, ".xls")
    IN  IF excel_files = <<>>
        THEN [success |-> FALSE,
              message |-> "No Excel files found in the selected folder",
              file_paths |-> <<>>]
        ELSE batch_content_check(validate_batch_filenames(excel_files))

\* Mutant of set_buttons_enabled: the process button follows has_files alone.
set_buttons_enabled_browse_only(enabled, process_enabled, has_files) ==
    [browse_file_btn   |-> enabled,
     browse_folder_btn |-> enabled,
     process_btn       |-> IF process_enabled # "None"
                           THEN process_enabled = "True"
                           ELSE has_files]

\* _set_buttons_enabled(enabled, process_enabled): the three buttons after
\* the call; process_enabled is "None" when the argument is left out.
set_buttons_enabled(enabled, process_enabled, has_files) ==
    [browse_file_btn   |-> enabled,
     browse_folder_btn |-> enabled,
     process_btn       |-> IF process_enabled # "None"
                           THEN process_enabled = "True"
                           ELSE enabled /\ has_files]

\* str(b) of a bool.
BoolStr(b) == IF b THEN "True" ELSE "False"

\* The buttons take the values of a record set_buttons_enabled returned.
ButtonsBecome(b) ==
    /\ browse_file_btn' = b.browse_file_btn
    /\ browse_folder_btn' = b.browse_folder_btn
    /\ process_btn' = b.process_btn

InitWindow ==
    /\ pc = "window"
    /\ IdleWindow
    /\ IdleCalc
    /\ IdleLetter
    /\ IdleId
    /\ IdleSheet
    /\ IdleIds
    /\ IdleTwice
    /\ IdleClean
    /\ IdleUi
    /\ IdleLocate

window_frame == <<pc, calc_vars, letter_vars, id_vars, sheet_vars, ids_vars,
                  twice_vars, clean_vars, file_vars, locate_vars, file_paths,
                  script_exists, file_index, successful_files, failed_files,
                  results_summary, file_progress, file_completed, progress,
                  finished>>

\* browse_single_file: the dialog returned a path whose name fails the check.
BrowseInvalidFile ==
    /\ browse_file_btn
    /\ \E file_path \in DiskPaths :
          /\ ~is_valid_name(file_path)
          /\ dialog' = [kind |-> "filename_error", text |-> basename(file_path)]
    /\ UNCHANGED <<status, window_vars, window_frame>>

\* browse_single_file and load_file: the dialog returned a path whose name
\* passes; a FileProcessor is started.
BrowseSingleFile ==
    /\ browse_file_btn
    /\ \E file_path \in DiskPaths :
          /\ is_valid_name(file_path)
          /\ processing_mode' = "single"
          /\ current_file_paths' = <<file_path>>
          /\ current_file_path' = file_path
          /\ file_processor' = file_path
    /\ status' = "Validating file format and content..."
    /\ ButtonsBecome(set_buttons_enabled(FALSE, "None", TRUE))
    /\ UNCHANGED <<dialog, batch_file_processor, data_processor,
                   batch_data_processor, window_frame>>

\* browse_folder and load_folder: a BatchFileProcessor is started.
BrowseFolder ==
    /\ browse_folder_btn
    /\ \E folder_path \in DiskFolders : batch_file_processor' = folder_path
    /\ processing_mode' = "batch"
    /\ status' = "Scanning folder and validating filenames..."
    /\ ButtonsBecome(set_buttons_enabled(FALSE, "None",
                         current_file_path # Null \/ current_file_paths # <<>>))
    /\ UNCHANGED <<dialog, current_file_path, current_file_paths,
                   file_processor, data_processor, batch_data_processor,
                   window_frame>>

\* on_file_processed, called with what the FileProcessor emitted.
OnFileProcessed ==
    /\ file_processor # Null
    /\ \E r \in {file_processor_run(file_processor)} :
          /\ ButtonsBecome(set_buttons_enabled(TRUE, BoolStr(r.success), TRUE))
          /\ status' = IF r.success THEN r.message
                       ELSE IF r.message = "Invalid filename format!"
                       THEN "Filename validation failed - check format"
                       ELSE "Error: " \o r.message
    /\ file_processor' = Null
    /\ UNCHANGED <<dialog, processing_mode, current_file_path,
                   current_file_paths, batch_file_processor, data_processor,
                   batch_data_processor, window_frame>>

\* on_batch_files_processed, called with what the BatchFileProcessor emitted.
OnBatchFilesProcessed ==
    /\ batch_file_processor # Null
    /\ \E r \in {batch_file_processor_run(batch_file_processor)} :
          /\ ButtonsBecome(set_buttons_enabled(TRUE,
                               BoolStr(r.success /\ Len(r.file_paths) > 0), TRUE))
          /\ current_file_paths' = IF r.success /\ r.file_paths # <<>>
                                   THEN r.file_paths ELSE current_file_paths
          /\ status' = IF r.success /\ r.file_paths # <<>>
                       THEN "Ready to process Excel files with valid filenames"
                       ELSE IF r.message = "No files with valid filename format found!"
                       THEN "No files with valid filename format found"
                       ELSE "Error: " \o r.message
    /\ batch_file_processor' = Null
    /\ UNCHANGED <<dialog, processing_mode, current_file_path, file_processor,
                   data_processor, batch_data_processor, window_frame>>

\* process_files in single mode: _process_single_file starts a DataProcessor.
ProcessSingleFile ==
    /\ process_btn
    /\ processing_mode = "single"
    /\ IF current_file_path = Null
       THEN /\ status' = "No file selected for processing"
            /\ UNCHANGED <<browse_file_btn, browse_folder_btn, process_btn,
                           data_processor>>
       ELSE /\ status' = "Running data.py processing..."
            /\ ButtonsBecome(set_buttons_enabled(FALSE, "None", TRUE))
            /\ data_processor' = current_file_path
    /\ UNCHANGED <<dialog, processing_mode, current_file_path,
                   current_file_paths, file_processor, batch_file_processor,
                   batch_data_processor, window_frame>>

\* process_files in batch mode: _process_batch_files starts a
\* BatchDataProcessor.
ProcessBatchFiles ==
    /\ process_btn
    /\ processing_mode = "batch"
    /\ IF current_file_paths = <<>>
       THEN /\ status' = "No files selected for processing"
            /\ UNCHANGED <<browse_file_btn, browse_folder_btn, process_btn,
                           batch_data_processor>>
       ELSE /\ status' = "Starting batch processing..."
            /\ ButtonsBecome(set_buttons_enabled(FALSE, "None", TRUE))
            /\ batch_data_processor' = current_file_paths
    /\ UNCHANGED <<dialog, processing_mode, current_file_path,
                   current_file_paths, file_processor, batch_file_processor,
                   data_processor, window_frame>>

\* The ways on_data_processed ends: the status line and the dialog shown.
DataOutcomes ==
    { [status |-> "Student ID validation failed - check format",
       dialog |-> "student_id_error"],
      [status |-> "Processing failed", dialog |-> "none"],
      [status |-> "Calculation failed", dialog |-> "none"] }
    \cup
    { IF export_clo_plo_results(writer_fails)
      THEN [status |-> "CLO/PLO calculation complete. Results appended",
            dialog |-> "success"]
      ELSE [status |-> "CLO/PLO calculation complete. See terminal output. (Excel append failed)",
            dialog |-> "none"] : writer_fails \in BOOLEAN }

\* on_data_processed, called with what the DataProcessor emitted.
OnDataProcessed_Window ==
    /\ data_processor # Null
    /\ ButtonsBecome(set_buttons_enabled(TRUE, "None",
                         current_file_path # Null \/ current_file_paths # <<>>))
    /\ \E outcome \in DataOutcomes :
          /\ status' = outcome.status
          /\ dialog' = IF outcome.dialog = "none" THEN dialog
                       ELSE [kind |-> outcome.dialog, text |-> ""]
    /\ data_processor' = Null
    /\ UNCHANGED <<processing_mode, current_file_path, current_file_paths,
                   file_processor, batch_file_processor, batch_data_processor,
                   window_frame>>

\* on_batch_data_processed, called with what the BatchDataProcessor emitted.
OnBatchDataProcessed ==
    /\ batch_data_processor # Null
    /\ ButtonsBecome(set_buttons_enabled(TRUE, "None",
                         current_file_path # Null \/ current_file_paths # <<>>))
    /\ \E success \in BOOLEAN :
          /\ status' = IF success THEN "Batch processing completed!"
                       ELSE "Batch processing failed"
          /\ dialog' = IF success THEN [kind |-> "batch_success", text |-> ""]
                       ELSE dialog
    /\ batch_data_processor' = Null
    /\ UNCHANGED <<processing_mode, current_file_path, current_file_paths,
                   file_processor, batch_file_processor, data_processor,
                   window_frame>>

NextWindow ==
    \/ BrowseInvalidFile
    \/ BrowseSingleFile
    \/ BrowseFolder
    \/ OnFileProcessed
    \/ OnBatchFilesProcessed
    \/ ProcessSingleFile
    \/ ProcessBatchFiles
    \/ OnDataProcessed_Window
    \/ OnBatchDataProcessed

SpecWindow == InitWindow /\ [][NextWindow]_vars

(***************************************************************************)
(* Reference definitions used by the properties                            *)
(***************************************************************************)
RECURSIVE RatSumSeq(_)
RatSumSeq(q) == IF q = <<>> THEN Zero ELSE RatAdd(Head(q), RatSumSeq(Tail(q)))

\* The sum of f over the set S.
RECURSIVE RatSumFn(_, _)
RatSumFn(f, S) ==
    IF S = {} THEN Zero
    ELSE LET x == CHOOSE y \in S : TRUE
         IN  RatAdd(f[x], RatSumFn(f, S \ {x}))

\* A student's raw value for a module: 0 when the module is missing from the
\* student's map or the value is not numeric.
RefScore(sid, m) ==
    IF m \notin DOMAIN student_scores[sid] THEN Zero
    ELSE IF float_of_str(student_scores[sid][m]).ok
         THEN float_of_str(student_scores[sid][m]).val
         ELSE Zero

\* contrib = (score / max_score) * weight, and 0 when max_score is 0.
RefContrib(sid, item) ==
    IF item.max_score = Zero THEN Zero
    ELSE RatMul(RatDiv(RefScore(sid, item.module), item.max_score), item.weight)

RefCloWeight(clo) ==
    RatSumSeq([i \in 1..Len(clo_assessments[clo]) |->
                  clo_assessments[clo][i].weight])

RefCloScore(sid, clo) ==
    round2(RatDiv(RatMul(Whole(100),
                         RatSumSeq([i \in 1..Len(clo_assessments[clo]) |->
                                       RefContrib(sid, clo_assessments[clo][i])])),
                  RefCloWeight(clo)))

\* The flat pool of assessment items as a bag: the distinct items, and how
\* often each occurs in any CLO's list.
PoolPositions ==
    UNION { {<<c, i>> : i \in 1..Len(clo_assessments[c])} :
            c \in DOMAIN clo_assessments }

PoolItems == {clo_assessments[pos[1]][pos[2]] : pos \in PoolPositions}

PoolCount(item) ==
    Cardinality({pos \in PoolPositions : clo_assessments[pos[1]][pos[2]] = item})

RefPoolWeight ==
    RatSumFn([it \in PoolItems |-> RatMul(Whole(PoolCount(it)), it.weight)],
             PoolItems)

RefGrade(sid) ==
    IF RefPoolWeight = Zero THEN Zero
    ELSE round2(RatDiv(
            RatMul(Whole(100),
                   RatSumFn([it \in PoolItems |->
                                RatMul(Whole(PoolCount(it)), RefContrib(sid, it))],
                            PoolItems)),
            RefPoolWeight))

(***************************************************************************)
(* Properties of the scoring functions (SpecScore)                         *)
(***************************************************************************)
\* C2: for every student and every CLO whose assessment weights sum to a
\* non-zero total, the CLO score is round(100 * sum(contrib) / sum(weight), 2)
\* with contrib = (score / max_score) * weight, 0 when max_score is 0, and
\* score 0 when the module is missing or its value is not numeric.
C2_CloScoreFormula ==
    pc # "start" =>
        \A sid \in DOMAIN student_scores : \A clo \in DOMAIN clo_assessments :
            RefCloWeight(clo) # Zero =>
                /\ clo \in DOMAIN clo_scores[sid]
                /\ clo_scores[sid][clo] = RefCloScore(sid, clo)

\* A CLO with a zero-max item beside an item scored 18 of 20, both of weight
\* 15: the student's score is 45.0.
C2_Witness ==
    /\ pc = "done"
    /\ \E clo \in DOMAIN clo_assessments :
          /\ Len(clo_assessments[clo]) = 2
          /\ \E i \in 1..2 : clo_assessments[clo][i].max_score = Zero
          /\ clo_scores[Sid(1)][clo] = Whole(45)

\* C3: a CLO whose assessment weights sum to zero (an empty list included)
\* scores 0 for every student, and no score is a division fault.
C3_ZeroWeightCloScoresZero ==
    pc # "start" =>
        \A sid \in DOMAIN student_scores : \A clo \in DOMAIN clo_assessments :
            /\ clo \in DOMAIN clo_scores[sid]
            /\ clo_scores[sid][clo] # ZeroDivisionError
            /\ RefCloWeight(clo) = Zero => clo_scores[sid][clo] = Zero

\* A CLO with an empty list beside a CLO whose only item has weight 0, max
\* score 3 and a numeric score of the student.
C3_Witness ==
    /\ pc = "done"
    /\ \E c1, c2 \in DOMAIN clo_assessments :
          /\ clo_assessments[c1] = <<>>
          /\ Len(clo_assessments[c2]) = 1
          /\ clo_assessments[c2][1].weight = Zero
          /\ clo_assessments[c2][1].max_score # Zero
          /\ RefScore(Sid(1), clo_assessments[c2][1].module) # Zero
          /\ clo_scores[Sid(1)][c1] = Zero
          /\ clo_scores[Sid(1)][c2] = Zero

\* C7: the overall grade is computed over the flat pool of all items with one
\* global total weight, is 0 when that total is zero, and depends only on the
\* bag of items, not on their grouping into CLOs.
C7_GradeOverFlatPool ==
    pc \in {"grades", "done"} =>
        /\ DOMAIN grades = DOMAIN student_scores
        /\ \A sid \in DOMAIN student_scores : grades[sid] = RefGrade(sid)

\* Two CLOs with one item each, and a grade that is the score of neither.
C7_Witness ==
    /\ pc = "done"
    /\ Cardinality(DOMAIN clo_assessments) = 2
    /\ \A c \in DOMAIN clo_assessments :
          Len(clo_assessments[c]) = 1 /\ grades[Sid(1)] # clo_scores[Sid(1)][c]
    /\ grades[Sid(1)] # Zero

(***************************************************************************)
(* Properties of calculate_plo_scores (SpecPlo)                            *)
(***************************************************************************)
\* The student's CLOs that clo_to_plo maps to PLO p.
FeedersOf(sid, p) ==
    {c \in DOMAIN clo_scores[sid] \cap DOMAIN clo_to_plo : clo_to_plo[c].PLO = p}

FedPlos(sid) ==
    {clo_to_plo[c].PLO : c \in DOMAIN clo_scores[sid] \cap DOMAIN clo_to_plo}

RefPloScore(sid, p) ==
    round2(RatDiv(
        RatSumFn([c \in FeedersOf(sid, p) |->
                     RatMul(clo_scores[sid][c], clo_to_plo[c].weight)],
                 FeedersOf(sid, p)),
        RatSumFn([c \in FeedersOf(sid, p) |-> clo_to_plo[c].weight],
                 FeedersOf(sid, p))))

\* C4: in every result calculate_plo_scores returns, the score of each PLO
\* that receives at least one of the student's CLO scores is
\* round(sum(s_i * w_i) / sum(w_i), 2) over exactly the student's CLOs mapped
\* to that PLO.
C4_PloScoreFormula ==
    (pc = "plo_scores" /\ plo_scores.ok) =>
        \A sid \in DOMAIN clo_scores : \A p \in FedPlos(sid) :
            /\ p \in DOMAIN plo_scores.value[sid]
            /\ plo_scores.value[sid][p] = RefPloScore(sid, p)

\* Scores 80 and 90 with weights 0.4 and 0.6 on one PLO give 86.0.
C4_Witness ==
    /\ pc = "plo_scores"
    /\ plo_scores.ok
    /\ \E p \in FedPlos(Sid(1)) :
          /\ Cardinality(FeedersOf(Sid(1), p)) = 2
          /\ \E a, b \in FeedersOf(Sid(1), p) :
                /\ clo_scores[Sid(1)][a] = Whole(80)
                /\ clo_to_plo[a].weight = Rat(4, 10)
                /\ clo_scores[Sid(1)][b] = Whole(90)
                /\ clo_to_plo[b].weight = Rat(6, 10)
          /\ plo_scores.value[Sid(1)][p] = Whole(86)

\* C5: in every result calculate_plo_scores returns, every student of
\* clo_scores has an entry, whose keys are exactly the PLO ids that clo_to_plo
\* assigns to the student's CLOs; CLOs without a mapping change nothing.
C5_PloKeySet ==
    (pc = "plo_scores" /\ plo_scores.ok) =>
        /\ DOMAIN plo_scores.value = DOMAIN clo_scores
        /\ \A sid \in DOMAIN clo_scores :
              DOMAIN plo_scores.value[sid] = FedPlos(sid)
        /\ plo_scores =
              calculate_plo_scores(
                  [sid \in DOMAIN clo_scores |->
                      [c \in DOMAIN clo_scores[sid] \cap DOMAIN clo_to_plo |->
                          clo_scores[sid][c]]],
                  clo_to_plo)

\* One student has a mapped and an unmapped CLO and gets exactly one PLO; the
\* other student's only CLO is unmapped and the student's map is empty.
C5_Witness ==
    /\ pc = "plo_scores"
    /\ plo_scores.ok
    /\ \E c \in DOMAIN clo_scores[Sid(1)] : c \notin DOMAIN clo_to_plo
    /\ DOMAIN plo_scores.value[Sid(1)] = {PloId(1)}
    /\ DOMAIN plo_scores.value[Sid(2)] = {}

\* C6: calculate_plo_scores completes normally, whatever the weights of the
\* CLOs mapped to a PLO sum to.
C6_PloNoArithmeticFault == pc = "plo_scores" => plo_scores.ok

(***************************************************************************)
(* Properties of get_letter_grade (SpecLetter)                             *)
(***************************************************************************)
\* The bands: inclusive lower bound and letter, and the rank of each letter.
Bands ==
    { <<95, "A+", 9>>, <<90, "A", 8>>, <<85, "A-", 7>>, <<80, "B+", 6>>,
      <<75, "B", 5>>, <<70, "B-", 4>>, <<67, "C+", 3>>, <<63, "C", 2>>,
      <<60, "C-", 1>> }

\* The band a percentage falls in: the one with the largest lower bound not
\* above it; F below every bound.
RefLetter(p) ==
    LET below == {b \in Bands : RatGeq(p, Whole(b[1]))}
    IN  IF below = {} THEN "F"
        ELSE (CHOOSE b \in below : \A c \in below : c[1] <= b[1])[2]

LetterRank(l) ==
    IF l = "F" THEN 0 ELSE (CHOOSE b \in Bands : b[2] = l)[3]

\* C8: get_letter_grade gives every percentage the band whose inclusive lower
\* bound is the largest one not above it (F below 60): 94.99 is A, 95.0 is
\* A+, 59.99 is F and 60.0 is C-; and the grade is monotone non-decreasing in
\* the percentage (it never drops from one hundredth to the next).
C8_LetterBands ==
    /\ get_letter_grade(Rat(9499, 100)) = "A"
    /\ get_letter_grade(Whole(95)) = "A+"
    /\ get_letter_grade(Rat(5999, 100)) = "F"
    /\ get_letter_grade(Whole(60)) = "C-"
    /\ pc = "letter" =>
          /\ letter = RefLetter(percentage)
          /\ \A b \in Bands :
                /\ RatGeq(percentage, Whole(b[1])) => LetterRank(letter) >= b[3]
                /\ ~RatGeq(percentage, Whole(b[1])) => LetterRank(letter) < b[3]
          /\ RatGeq(percentage, Rat(1, 100)) =>
                LetterRank(get_letter_grade(RatAdd(percentage, Rat(0 - 1, 100))))
                    <= LetterRank(letter)

\* The threshold itself gets the higher band: 95.0 is graded A+.
C8_Witness ==
    /\ pc = "letter"
    /\ percentage = Whole(95)
    /\ letter = "A+"

(***************************************************************************)
(* Properties of validate_and_format_student_id (SpecId)                   *)
(***************************************************************************)
\* Two lowercase letters followed by five digits.
RefGrammar(s) ==
    /\ Len(s) = 7
    /\ Keep(SubSeq(s, 1, 2), Letters) = SubSeq(s, 1, 2)
    /\ Keep(SubSeq(s, 3, 7), Digits) = SubSeq(s, 3, 7)

\* s without its characters other than letters and digits.
RECURSIVE RefAlnum(_)
RefAlnum(s) ==
    IF s = "" THEN ""
    ELSE IF IsLetter(Head(s)) \/ IsDigit(Head(s))
         THEN Head(s) \o RefAlnum(Tail(s))
         ELSE RefAlnum(Tail(s))

\* The first k characters of s that satisfy IsLetter (letters = TRUE) or
\* IsDigit (letters = FALSE); fewer when s holds fewer.
RECURSIVE RefFirst(_, _, _)
RefFirst(s, k, letters) ==
    IF s = "" \/ k = 0 THEN ""
    ELSE IF (letters /\ IsLetter(Head(s))) \/ (~letters /\ IsDigit(Head(s)))
         THEN Head(s) \o RefFirst(Tail(s), k - 1, letters)
         ELSE RefFirst(Tail(s), k, letters)

\* Steps (2) to (5) on the trimmed, lowercased value s of the raw value.
RefLaterSteps(raw, s) ==
    IF RefGrammar(s) THEN Accepted(s \o DomainSuffix)
    ELSE IF RefGrammar(RefAlnum(s)) THEN Accepted(RefAlnum(s) \o DomainSuffix)
    ELSE IF RefGrammar(RefFirst(s, 2, TRUE) \o RefFirst(s, 5, FALSE))
         THEN Accepted(RefFirst(s, 2, TRUE) \o RefFirst(s, 5, FALSE)
                       \o DomainSuffix)
         ELSE Rejected("Invalid student ID format", raw)

\* The procedure as claimed: step (1) applies to values that end with the
\* domain suffix.
ClaimedOutcome(raw) ==
    LET s == Lower(Strip(raw))
    IN  IF EndsWith(s, DomainSuffix)
        THEN IF RefGrammar(BeforeFirst(s, "@")) THEN Accepted(s)
             ELSE Rejected("rejected in step 1", s)
        ELSE RefLaterSteps(raw, s)

\* The procedure as amended: step (1) applies to values that hold the domain
\* suffix anywhere, and rejects those that do not end with it.
AmendedOutcome(raw) ==
    LET s == Lower(Strip(raw))
    IN  IF \E i \in 1..(Len(s) - Len(DomainSuffix) + 1) :
              SubSeq(s, i, i + Len(DomainSuffix) - 1) = DomainSuffix
        THEN IF RefGrammar(BeforeFirst(s, "@")) /\ EndsWith(s, DomainSuffix)
             THEN Accepted(s)
             ELSE Rejected("rejected in step 1", s)
        ELSE RefLaterSteps(raw, s)

\* Same outcome: both fail, or both return the same identifier; a failure of
\* step (5) names the raw value.
SameOutcome(got, ref) ==
    /\ got.ok = ref.ok
    /\ got.ok => got.id = ref.id
    /\ (~ref.ok /\ ref.error = "Invalid student ID format") =>
          got.named = ref.named

\* C10 as claimed: the outcome equals the reference procedure whose step (1)
\* applies when the trimmed, lowercased raw value ends with the domain suffix.
C10_AsClaimed ==
    pc = "validated" =>
        SameOutcome(id_result, ClaimedOutcome(student_id_raw))

\* C10 as amended: step (1) applies when the trimmed, lowercased raw value
\* contains the domain suffix anywhere: the part before the first "@" is
\* matched against two letters + five digits, and the value is rejected if
\* that fails or if the value does not end with the suffix (later steps are
\* not tried), else returned as it is; steps (2) to (5) are as claimed.
\* "hm08298" and "HM08298@ST.HABIB.EDU.PK" give "hm08298@st.habib.edu.pk" and
\* "12345" fails.
C10_NormalizationSteps ==
    /\ validate_and_format_student_id("hm08298")
          = Accepted("hm08298@st.habib.edu.pk")
    /\ validate_and_format_student_id("HM08298@ST.HABIB.EDU.PK")
          = Accepted("hm08298@st.habib.edu.pk")
    /\ ~validate_and_format_student_id("12345").ok
    /\ pc = "validated" =>
          SameOutcome(id_result, AmendedOutcome(student_id_raw))

\* A value that holds the domain suffix but does not end with it is rejected,
\* although its letters and digits would pass step (4).
C10_Witness ==
    /\ pc = "validated"
    /\ Contains(Lower(Strip(student_id_raw)), DomainSuffix)
    /\ ~EndsWith(Lower(Strip(student_id_raw)), DomainSuffix)
    /\ ~id_result.ok
    /\ RefLaterSteps(student_id_raw, Lower(Strip(student_id_raw))).ok

(***************************************************************************)
(* Properties of the whole engine (Spec)                                   *)
(***************************************************************************)
\* The calls of _process_calculation_results that have returned include
\* calculate_clo_scores.
CloScoresComputed == pc \in {"clo_scores", "plo_scores", "grades", "done"}

\* C1: for every student of student_scores and every CLO defined in the sheet
\* (every key of the extracted clos), the student's map in the CLO-score
\* output holds that CLO's key, also when the CLO has no entry in
\* clo_assessments.
C1_EveryDefinedCloScored ==
    CloScoresComputed =>
        \A sid \in DOMAIN student_scores : \A clo \in DOMAIN clos :
            /\ sid \in DOMAIN clo_scores
            /\ clo \in DOMAIN clo_scores[sid]

\* The sheet of the end-to-end scenario: CLO 1 and CLO 2 are defined, CLO 1
\* maps to PLO 1 with weight 1.0, the only mapped module is Q1 (CLO 1,
\* weight 15, max score 20) and the only student scores 18 on Q1.
ScenarioSheet ==
    \E a \in SheetChoices :
        /\ df = Sheet(a)
        /\ a.plo1 = "1;1.0"
        /\ a.desc2 = "Analyse the results"
        /\ a.anchor = "Modules"
        /\ a.map1 = "1;15"
        /\ a.max1 = "20"
        /\ a.map2 = Null
        /\ a.s11 = "18"
        /\ a.second = ""

ScenarioStudent == "hm08298" \o DomainSuffix

Canonical(k) ==
    /\ Len(k) = 7 + Len(DomainSuffix)
    /\ RefGrammar(SubSeq(k, 1, 7))
    /\ SubSeq(k, 8, Len(k)) = DomainSuffix

\* C11: whenever validate_all_student_ids returns normally, every key of the
\* returned map is a canonical identifier.
C11_KeysCanonical ==
    (pc = "ids_validated" /\ ids_result.ok) =>
        \A k \in DOMAIN ids_result.value : Canonical(k)

\* The positions of ids_raw whose identifier is rejected.
InvalidPositions ==
    {i \in 1..Len(ids_raw) : ~validate_and_format_student_id(ids_raw[i].id).ok}

\* C12: validate_all_student_ids visits every entry before failing: if some
\* raw identifier is rejected the outcome is one ValueError that lists every
\* rejected raw identifier, once each, and no accepted one, and no map is
\* returned; if none is rejected it returns a map.
C12_AllVisitedBeforeFailing ==
    pc = "ids_validated" =>
        IF InvalidPositions = {}
        THEN /\ ids_result.ok
             /\ DOMAIN ids_result = {"ok", "value"}
        ELSE /\ ~ids_result.ok
             /\ ids_result.error = "ValueError"
             /\ DOMAIN ids_result = {"ok", "error", "invalid_ids"}
             /\ Len(ids_result.invalid_ids) = Cardinality(InvalidPositions)
             /\ \A i \in 1..Len(ids_raw) :
                   (i \in InvalidPositions) <=>
                       \E j \in 1..Len(ids_result.invalid_ids) :
                           ids_result.invalid_ids[j] = ids_raw[i].id

\* A map with an accepted identifier between two rejected ones: the error
\* lists both rejected identifiers and only them.
C12_Witness ==
    /\ pc = "ids_validated"
    /\ Len(ids_raw) = 3
    /\ InvalidPositions = {1, 3}
    /\ ids_result.invalid_ids = <<ids_raw[1].id, ids_raw[3].id>>

NoEmptyOrShortRow(g) ==
    /\ \A i \in 1..Len(g) : \E j \in 1..Len(g[i]) : g[i][j] # Missing
    /\ \A j \in Cols(g) : \E i \in 1..Len(g) : g[i][j] # Missing
    /\ \A i \in 1..Len(g) : row_char_count(g[i]) > 2

\* Every cell of g is missing or a text that is trimmed and holds none of
\* the characters the cleaning removes or replaces.
AllCleanText(g) ==
    \A i \in 1..Len(g) : \A j \in 1..Len(g[i]) :
        \/ g[i][j] = Missing
        \/ /\ g[i][j].kind = "text"
           /\ Keep(g[i][j].text, "^_|~") = ""
           /\ Strip(g[i][j].text) = g[i][j].text

\* No column of g is missing in 70 % of the rows or more.
NoSparseColumn(g) ==
    \A j \in Cols(g) :
        10 * Cardinality({i \in 1..Len(g) : g[i][j] = Missing}) < 7 * Len(g)

\* C14 as stated: the cleaning of a sheet without a row or column that is
\* missing throughout and without a short row equals the sheet, cell for
\* cell, and cleaning a cleaned sheet changes nothing.
C14_AsClaimed ==
    /\ (pc \in {"cleaned", "cleaned_twice"} /\ NoEmptyOrShortRow(raw_grid))
          => cleaned_grid = raw_grid
    /\ pc = "cleaned_twice" => cleaned_twice = cleaned_grid

\* C14 (amended): the cleaning of a sheet without a row or column that is
\* missing throughout, without a short row, without a column missing in
\* 70 % of the rows or more, and whose cells are missing or already clean
\* texts, equals the sheet, and so does the cleaning of that.
C14_RoundTrip ==
    (/\ pc \in {"cleaned", "cleaned_twice"}
     /\ NoEmptyOrShortRow(raw_grid)
     /\ AllCleanText(raw_grid)
     /\ NoSparseColumn(raw_grid))
        => /\ cleaned_grid = raw_grid
           /\ pc = "cleaned_twice" => cleaned_twice = raw_grid

\* A sheet of four rows of clean texts with missing cells in column 1 was
\* cleaned twice.
C14_Witness ==
    /\ pc = "cleaned_twice"
    /\ Len(raw_grid) = 4
    /\ NoEmptyOrShortRow(raw_grid)
    /\ AllCleanText(raw_grid)
    /\ NoSparseColumn(raw_grid)
    /\ \E i \in 1..4 : raw_grid[i][2] = Missing

(***************************************************************************)
(* Properties of SpecFile                                                  *)
(***************************************************************************)

\* the grammar <4 digits>-<2 to 4 letters>-<3 digits>-<L or T, digits> with
\* extension .xlsx or .xls, read position by position; letters of either case
AnyCaseLetter(c) == IsLetter(c) \/ IsCapital(c)

InFilenameGrammar(b) ==
    \E d \in 2..4, k \in 1..Len(b), e \in {".xlsx", ".xls"} :
        /\ Len(b) = 4 + 1 + d + 1 + 3 + 1 + 1 + k + Len(e)
        /\ \A i \in 1..4 : IsDigit(Ch(b, i))
        /\ Ch(b, 5) = "-"
        /\ \A i \in 6..(5 + d) : AnyCaseLetter(Ch(b, i))
        /\ Ch(b, 6 + d) = "-"
        /\ \A i \in (7 + d)..(9 + d) : IsDigit(Ch(b, i))
        /\ Ch(b, 10 + d) = "-"
        /\ Ch(b, 11 + d) \in {"L", "T", "l", "t"}
        /\ \A i \in (12 + d)..(11 + d + k) : IsDigit(Ch(b, i))
        /\ SubSeq(b, 12 + d + k, Len(b)) = e

\* C15: validate_filename_format succeeds exactly for the names whose base
\* name is <4 digits>-<2 to 4 letters>-<3 digits>-<L or T and one or more
\* digits> with extension .xlsx or .xls, fails with a message for every other
\* name, and on success returns the four parts, department and section in
\* upper case.
C15_FilenameGrammar ==
    pc = "validated" =>
        /\ file_result.success <=> InFilenameGrammar(basename(filename))
        /\ file_result.message # ""
        /\ file_result.success =>
            LET c == file_result.components
                b == basename(filename)
            IN  /\ c.semester = SubSeq(b, 1, 4)
                /\ c.department = Upper(SubSeq(b, 6, 5 + Len(c.department)))
                /\ c.course = SubSeq(b, 7 + Len(c.department), 9 + Len(c.department))
                /\ c.section = Upper(SubSeq(b, 11 + Len(c.department),
                                            10 + Len(c.department) + Len(c.section)))

(***************************************************************************)
(* Properties of SpecUi                                                    *)
(***************************************************************************)

InBatch == pc \in {"batch_ready", "batch_loop", "batch_done"}

NonDecreasing(q) == \A a, b \in 1..Len(q) : a <= b => q[a] <= q[b]

Members(q) == {q[k] : k \in 1..Len(q)}

\* Every file gone through so far was attempted in list order, has its one
\* file_completed signal and its one place in successful_files or
\* failed_files, and the progress values do not decrease.
BatchAttempts ==
    /\ Len(file_completed) = file_index
    /\ Len(file_progress) = file_index
    /\ Len(progress) = file_index
    /\ NonDecreasing(progress)
    /\ Len(successful_files) + Len(failed_files) = file_index
    /\ \A k \in 1..file_index :
          /\ file_completed[k].file_name = file_paths[k].name
          /\ (file_paths[k].name \in Members(successful_files))
                # (file_paths[k].name \in Members(failed_files))
          /\ file_completed[k].success
                <=> file_paths[k].name \in Members(successful_files)

\* finished is emitted once, after the last file, when progress is at 100.
BatchEnd ==
    /\ pc = "batch_done" =>
          /\ file_index = Len(file_paths)
          /\ progress[Len(progress)] = 100
          /\ Len(finished) = 1
    /\ pc # "batch_done" => finished = <<>>

\* Without the processing script nothing is attempted and finished reports
\* the failure, once.
BatchWithoutScript ==
    /\ file_completed = <<>>
    /\ progress = <<>>
    /\ pc = "batch_done" => Len(finished) = 1 /\ ~finished[1].success
    /\ pc # "batch_done" => finished = <<>>

\* C16 as the claim states it: for every input list every file is attempted
\* and the run ends with progress 100 and one finished signal.
C16_AsClaimed == InBatch => BatchAttempts /\ BatchEnd

\* C16: batch processing continues past failures.  When the processing
\* script exists, BatchDataProcessor.run attempts every file of the list in
\* list order and emits exactly one file_completed signal for it, whether the
\* subprocess fails, the calculation fails or the file succeeds; the run
\* reaches its end whatever the files did; every file is in exactly one of
\* successful_files and failed_files; the progress values do not decrease and
\* end at 100; finished is emitted exactly once.  When the script is missing
\* no file is attempted and finished is emitted once, reporting the failure.
C16_BatchContinues ==
    /\ [](InBatch /\ script_exists => BatchAttempts /\ BatchEnd)
    /\ [](InBatch /\ ~script_exists => BatchWithoutScript)
    /\ [](pc = "batch_ready" => <>(pc = "batch_done"))

\* a batch of three files whose first file failed and whose second succeeded
C16_Witness ==
    /\ pc = "batch_done"
    /\ script_exists
    /\ Len(file_paths) = 3
    /\ Len(file_completed) = 3
    /\ ~file_completed[1].success
    /\ file_completed[2].success
    /\ failed_files # <<>>
    /\ finished # <<>>

\* The file's identifiers fail the validation of data.py.
IdValidationFails(file) ==
    /\ file.launch = ""
    /\ file.readable
    /\ \E r \in {extract_clo_plo_data(Sheet(file.choice))} :
          ~r.ok /\ r.error = "ValueError"

\* C17: when identifier validation fails for a file, the failure reaches the
\* user as a student-ID error: in the single-file flow on_data_processed
\* shows the student-ID dialog with the aggregated identifier-error text, and
\* in the batch flow file_completed reports the file as failed with an
\* "Invalid student ID format" message.
C17_IdFailureShown ==
    /\ (pc = "single_done" /\ script_exists /\ IdValidationFails(file_paths[1]))
          => /\ dialog.kind = "student_id"
             /\ Contains(dialog.text, IdErrorMark)
    /\ InBatch =>
          \A k \in 1..Len(file_completed) :
              IdValidationFails(file_paths[k])
                  => /\ ~file_completed[k].success
                     /\ Contains(file_completed[k].message, IdErrorMark)

(***************************************************************************)
(* Properties of SpecLocate                                                *)
(***************************************************************************)
\* The word stands in the text as a whole word: no word character stands
\* directly before or after it.
HoldsWholeWord(text, word) ==
    \E i \in 1..(Len(text) - Len(word) + 1) :
        /\ SubSeq(text, i, i + Len(word) - 1) = word
        /\ (i = 1 \/ ~IsWordChar(Ch(text, i - 1)))
        /\ (i + Len(word) > Len(text) \/ ~IsWordChar(Ch(text, i + Len(word))))

\* The rows (counted from 0) whose first cell holds the whole word "module"
\* or "modules" in any case.
WordRows(d) ==
    {r \in 0..(Len(d) - 1) :
        /\ d[r + 1][1] # Null
        /\ \E text \in {Lower(d[r + 1][1])} :
              HoldsWholeWord(text, "module") \/ HoldsWholeWord(text, "modules")}

\* The one column of row r (counted from 0) of a drawn grid that has the
\* form of a mapping entry.
MappingColumn(r) == CHOOSE c \in LocateColumns : (r + 1 + c) % 3 = 0

\* What an extraction that reads the names from row r, the mapping from row
\* r + 1, the maximum scores from row r + 2 and the students from row r + 3
\* on gives on a drawn grid: the cells name their rows.
AssessmentsFrom(r) ==
    LET c == MappingColumn(r + 1)
    IN  ("CLO " \o Ch(Digits, r + 3)) :>
            << [module    |-> LocateCell(r + 1, c),
                max_score |-> Whole(10 * (r + 3) + c),
                weight    |-> Whole(10)] >>

StudentsFrom(d, r) ==
    [id \in {LabelText("id", i) \o DomainSuffix : i \in (r + 4)..Len(d)} |->
        LET i == CHOOSE k \in (r + 4)..Len(d) :
                     LabelText("id", k) \o DomainSuffix = id
        IN  [m \in {LocateCell(r + 1, c) : c \in LocateColumns} |->
                LET c == CHOOSE k \in LocateColumns : LocateCell(r + 1, k) = m
                IN  LocateCell(i, c)]]

\* C18: when some row of column 0 holds the whole word "module" or "modules"
\* (in any case), find_data_rows returns the first such row r with r + 1,
\* r + 2 and r + 3, no row above r holds the word, and an extraction that
\* returns has read the module names, the mapping, the maximum scores and
\* the students from exactly these rows.
C18_FirstModuleRow ==
    pc # "grid" =>
        \E rows \in {WordRows(df)} :
            rows # {} =>
                \E r \in rows :
                    /\ data_rows = <<r, r + 1, r + 2, r + 3>>
                    /\ \A q \in 0..(r - 1) : q \notin rows
                    /\ pc = "extracted" =>
                          /\ extraction.clo_assessments = AssessmentsFrom(r)
                          /\ extraction.student_scores = StudentsFrom(df, r)

\* An extraction returned on a grid where a longer word that contains
\* "module" stands above the located row, the word stands again below it,
\* and students follow.
C18_Witness ==
    /\ pc = "extracted"
    /\ data_rows[1] >= 1
    /\ df[1][1] = "Submodules"
    /\ Cardinality(WordRows(df)) >= 2
    /\ DOMAIN extraction.student_scores # {}

\* C19: when no row of column 0 holds the word, find_data_rows falls back to
\* row 10 (with rows 11, 12 and 13) and the extraction goes on and returns
\* without raising, on every cleaned grid, those of fewer than 13 rows
\* included.
C19_FallbackContinues ==
    (pc \in {"extracted", "raised"} /\ WordRows(df) = {}) =>
        /\ data_rows = <<10, 11, 12, 13>>
        /\ pc = "extracted"

(***************************************************************************)
(* Properties of Spec: the mapping row                                     *)
(***************************************************************************)
\* A mapping entry that has the separator but not two parts, or whose weight
\* or maximum score is no number.
MalformedEntry(mapping, max_score) ==
    /\ mapping # Null
    /\ Contains(mapping, ";")
    /\ \E parts \in {Split(mapping, ";")} :
          \/ Len(parts) # 2
          \/ ~float_of_str(parts[2]).ok
          \/ max_score = Null
          \/ ~float_of_str(max_score).ok

\* The mapping row with its malformed entries taken out.
WithoutMalformed(clo_mapping, max_scores) ==
    [j \in 1..Len(clo_mapping) |->
        IF MalformedEntry(clo_mapping[j], max_scores[j]) THEN Null
        ELSE clo_mapping[j]]

\* C20: a malformed mapping entry leaves clo_assessments as it was before the
\* entry: no CLO key and no list element comes from it, and the other
\* columns are processed as if the entry were not there.
C20_MalformedSkipped ==
    pc \notin {"sheet", "failed"} =>
        \E r \in {find_data_rows(df)} :
            clo_assessments =
                collect_assessments(Tail(df[r + 1]),
                                    WithoutMalformed(Tail(df[r + 2]), Tail(df[r + 3])),
                                    Tail(df[r + 3]),
                                    NCols(df) - 1)

(***************************************************************************)
(* Properties of SpecAssess                                                *)
(***************************************************************************)
\* The cell is text of the form "<clo-index>;<weight>": one separator, and
\* the part after it is a number.
HasMappingForm(cell) ==
    /\ cell # Null
    /\ Cardinality({i \in 1..Len(cell) : Ch(cell, i) = ";"}) = 1
    /\ float_of_str(SubSeq(cell, Len(BeforeFirst(cell, ";")) + 2, Len(cell))).ok

\* The CLO a mapping cell of that form names.
NamedClo(cell) == "CLO " \o Strip(BeforeFirst(cell, ";"))

\* The members of a set of numbers in increasing order.
RECURSIVE Ascending(_)
Ascending(S) ==
    IF S = {} THEN <<>>
    ELSE LET last == CHOOSE x \in S : \A y \in S : y <= x
         IN  Append(Ascending(S \ {last}), last)

\* The number a cell holds; Null when it holds none.
ParsedNumber(cell) ==
    IF cell # Null /\ float_of_str(cell).ok THEN float_of_str(cell).val ELSE Null

\* The assessments of the columns cols of a drawn grid, in column order.
AssessmentsOfColumns(d, cols) ==
    LET order == Ascending(cols)
    IN  [i \in 1..Len(order) |->
            [module    |-> d[1][order[i] + 1],
             max_score |-> ParsedNumber(d[3][order[i] + 1]),
             weight    |-> float_of_str(
                               SubSeq(d[2][order[i] + 1],
                                      Len(BeforeFirst(d[2][order[i] + 1], ";")) + 2,
                                      Len(d[2][order[i] + 1]))).val]]

\* The assessments clo_assessments lists for a CLO; none when the CLO has no
\* key.
ListedFor(clo_id) ==
    IF clo_id \in DOMAIN clo_assessments THEN clo_assessments[clo_id] ELSE <<>>

MappedClos(d) ==
    {NamedClo(d[2][j + 1]) : j \in {k \in 1..(NCols(d) - 1) : HasMappingForm(d[2][k + 1])}}

\* C21 as stated: the assessments listed for a CLO are those of the columns
\* whose mapping cell has the form "<clo-index>;<weight>" and names the CLO,
\* in column order, whatever the max-score cell holds.
C21_AsClaimed ==
    pc = "assessed" =>
        \A clo_id \in DOMAIN clo_assessments \cup MappedClos(df) :
            ListedFor(clo_id) =
                AssessmentsOfColumns(df,
                    {j \in 1..(NCols(df) - 1) :
                        /\ HasMappingForm(df[2][j + 1])
                        /\ NamedClo(df[2][j + 1]) = clo_id})

\* C21: the assessments listed for a CLO are those of the columns whose
\* mapping cell has the form "<clo-index>;<weight>" and names the CLO and
\* whose max-score cell is a number, each column once, in column order;
\* a column whose mapping cell is missing or has no ";" adds nothing.
C21_AssessmentPerColumn ==
    pc = "assessed" =>
        \A clo_id \in DOMAIN clo_assessments \cup MappedClos(df) :
            ListedFor(clo_id) =
                AssessmentsOfColumns(df,
                    {j \in 1..(NCols(df) - 1) :
                        /\ HasMappingForm(df[2][j + 1])
                        /\ NamedClo(df[2][j + 1]) = clo_id
                        /\ df[3][j + 1] # Null
                        /\ float_of_str(df[3][j + 1]).ok})

\* Two columns were appended to one CLO around a column that was passed
\* over, and a column of the right form was left out for its max score.
C21_Witness ==
    /\ pc = "assessed"
    /\ NCols(df) = 4
    /\ df[2][3] = "Quiz"
    /\ "CLO 1" \in DOMAIN clo_assessments
    /\ Len(clo_assessments["CLO 1"]) = 2

(***************************************************************************)
(* Properties of SpecDefine                                                *)
(***************************************************************************)
\* The rows (counted from 1) of a grid whose first cell starts with "CLO" and
\* whose description is present with more than 10 characters after trimming.
AcceptedRows(d) ==
    {i \in 1..Len(d) :
        /\ d[i][1] # Null
        /\ StartsWith(Strip(d[i][1]), "CLO")
        /\ d[i][2] # Null
        /\ Len(Strip(d[i][2])) > 10}

\* The accepted rows that name the CLO.
RowsOf(d, clo_id) == {i \in AcceptedRows(d) : Strip(d[i][1]) = clo_id}

\* The accepted rows that name the CLO and whose column 3 has the form
\* "<plo-index>;<weight>".
MappingRowsOf(d, clo_id) == {i \in RowsOf(d, clo_id) : HasMappingForm(d[i][4])}

\* The mapping a cell of that form stands for.
PloMappingOf(cell) ==
    [PLO    |-> "PLO " \o Strip(BeforeFirst(cell, ";")),
     weight |-> ParsedNumber(SubSeq(cell, Len(BeforeFirst(cell, ";")) + 2,
                                    Len(cell)))]

\* C22: the CLO definitions are those of the rows whose column 0 starts with
\* "CLO" and whose description is present with a trimmed length above 10
\* (the last such row of a CLO gives its description and level); a CLO has
\* a PLO mapping exactly when such a row of it has a column 3 of the form
\* "<plo-index>;<weight>", and this one mapping is {PLO: "PLO " +
\* plo-index, weight}; a rejected row gives neither.
C22_DefinitionRows ==
    pc = "defined" =>
        /\ DOMAIN clos = {Strip(df[i][1]) : i \in AcceptedRows(df)}
        /\ \A clo_id \in DOMAIN clos :
              \E i \in {Max(RowsOf(df, clo_id))} :
                  clos[clo_id] = [description |-> df[i][2], LDL |-> df[i][3]]
        /\ DOMAIN clo_to_plo =
              {clo_id \in DOMAIN clos : MappingRowsOf(df, clo_id) # {}}
        /\ \A clo_id \in DOMAIN clo_to_plo :
              \E i \in {Max(MappingRowsOf(df, clo_id))} :
                  clo_to_plo[clo_id] = PloMappingOf(df[i][4])

\* A row with a description of ten characters and a well-formed mapping was
\* rejected, and the row after it was accepted with its mapping.
C22_Witness ==
    /\ pc = "defined"
    /\ Len(df) = 2
    /\ df[1][1] = "CLO 1"
    /\ df[1][2] = "Apply them"
    /\ df[1][4] = "1;0.5"
    /\ "CLO 1" \notin DOMAIN clos
    /\ "CLO 2" \in DOMAIN clo_to_plo

\* The cell holds a mapping string that fails to parse: it has the separator
\* but not the form "<plo-index>;<weight>".
FailsToParse(cell) ==
    cell # Null /\ Contains(cell, ";") /\ ~HasMappingForm(cell)

\* C30 as stated: every CLO of clo_to_plo is in clos, and a CLO one of whose
\* accepted rows holds a mapping string that fails to parse is defined and
\* has no entry in clo_to_plo.
C30_AsClaimed ==
    pc = "defined" =>
        /\ DOMAIN clo_to_plo \subseteq DOMAIN clos
        /\ \A i \in AcceptedRows(df) :
              FailsToParse(df[i][4]) =>
                  /\ Strip(df[i][1]) \in DOMAIN clos
                  /\ Strip(df[i][1]) \notin DOMAIN clo_to_plo

\* C30: every CLO of clo_to_plo is in clos and its mapping comes from an
\* accepted row, never from a rejected one; an accepted row whose mapping
\* string fails to parse leaves its CLO defined and records no mapping, so
\* that the CLO is mapped only through another accepted row of the same id.
C30_MappedAreDefined ==
    pc = "defined" =>
        /\ DOMAIN clo_to_plo \subseteq DOMAIN clos
        /\ \A clo_id \in DOMAIN clo_to_plo :
              \E k \in MappingRowsOf(df, clo_id) :
                  clo_to_plo[clo_id] = PloMappingOf(df[k][4])
        /\ \A i \in AcceptedRows(df) :
              FailsToParse(df[i][4]) =>
                  /\ Strip(df[i][1]) \in DOMAIN clos
                  /\ Strip(df[i][1]) \in DOMAIN clo_to_plo =>
                        \E k \in MappingRowsOf(df, Strip(df[i][1])) :
                            /\ k # i
                            /\ clo_to_plo[Strip(df[i][1])] = PloMappingOf(df[k][4])

\* An accepted row with the mapping string "2;x" left its CLO defined and
\* unmapped, next to a rejected row that holds a well-formed mapping.
C30_Witness ==
    /\ pc = "defined"
    /\ Len(df) = 2
    /\ df[1] = DefineRow(1, "CLO 1", "Apply these", "2;x")
    /\ df[2] = DefineRow(2, "CLO 2", "Apply them", "3;1")
    /\ DOMAIN clos = {"CLO 1"}
    /\ clo_to_plo = EmptyMap

(***************************************************************************)
(* Properties of SpecSparse                                                *)
(***************************************************************************)
\* The number of missing cells of column j of a grid.
MissingCount(g, j) == Cardinality({i \in 1..Len(g) : g[i][j] = Missing})

\* C23: the second column of the loaded sheet is dropped by the cleaning
\* exactly when its fraction of missing cells exceeds 0.7; with a fraction
\* of exactly 0.7 or less it is kept (the first column is never missing and
\* every row is long enough to stay).
C23_DropsAboveSeventy ==
    pc # "loaded" =>
        /\ Len(cleaned_grid) = Len(raw_grid)
        /\ (Len(cleaned_grid[1]) = 2) <=>
               (10 * MissingCount(raw_grid, 2) <= 7 * Len(raw_grid))

(***************************************************************************)
(* Properties of SpecWindow                                                *)
(***************************************************************************)
\* C24: in every reachable state of the window, the path a DataProcessor was
\* started with and every path a BatchDataProcessor was started with has a
\* file name that passed validate_filename_format, whatever files and
\* folders were selected and whatever was processed before.
C24_ValidatedNamesOnly ==
    /\ data_processor # Null =>
          validate_filename_format(basename(data_processor)).success
    /\ batch_data_processor # Null =>
          \A i \in 1..Len(batch_data_processor) :
              validate_filename_format(basename(batch_data_processor[i])).success

\* A batch run is started from a folder that also holds a file with a
\* failing name, after a single file was processed to its end.
C24_Witness ==
    /\ batch_data_processor # Null
    /\ "in/notes.xlsx" \in Members(glob("in", ".xlsx"))
    /\ batch_data_processor = <<"in/2515-EE-437-L1.xlsx">>
    /\ current_file_path = "new/2412-CS-101-T2.xlsx"
    /\ processing_mode = "batch"

\* The workers that are started and whose finished handler has not run.
RunningWorkers ==
    {w \in {"FileProcessor", "BatchFileProcessor", "DataProcessor",
            "BatchDataProcessor"} :
        \/ w = "FileProcessor" /\ file_processor # Null
        \/ w = "BatchFileProcessor" /\ batch_file_processor # Null
        \/ w = "DataProcessor" /\ data_processor # Null
        \/ w = "BatchDataProcessor" /\ batch_data_processor # Null}

\* C29: at most one worker is running at any time; while one is running the
\* browse-file, browse-folder and process buttons are all disabled; when
\* none is running (at the start and after a finished handler ran, which
\* cleared the worker reference) the browse buttons are enabled.
C29_OneWorkerAtATime ==
    /\ Cardinality(RunningWorkers) <= 1
    /\ RunningWorkers # {} =>
          ~browse_file_btn /\ ~browse_folder_btn /\ ~process_btn
    /\ RunningWorkers = {} => browse_file_btn /\ browse_folder_btn

\* A DataProcessor is running with every button disabled, after the
\* FileProcessor of the same file reported and was cleared.
C29_Witness ==
    /\ RunningWorkers = {"DataProcessor"}
    /\ data_processor = current_file_path
    /\ status = "Running data.py processing..."
    /\ ~browse_file_btn /\ ~browse_folder_btn /\ ~process_btn

(***************************************************************************)
(* Properties of SpecUi: the export of the results                         *)
(***************************************************************************)

\* C25: once the extraction and the scoring of a file have succeeded, the
\* results are appended to the workbook: when the workbook writer itself
\* does not fail, the export returns, excel_updated is True, and
\* on_data_processed ends the single-file flow with the success dialog and
\* the "Results appended" status line.
C25_ResultsAppended ==
    pc = "single_finished" /\ finished[1].success =>
        \E calc \in {process_results([printed |-> finished[1].printed,
                                      json |-> finished[1].json])} :
            calc.ok =>
                /\ export_clo_plo_results(FALSE)
                /\ \E r \in {data_processed_shows(finished[1], calc,
                                 export_clo_plo_results(FALSE))} :
                      /\ r.dialog.kind = "success"
                      /\ r.status = "CLO/PLO calculation complete. Results appended"

(***************************************************************************)
(* Properties of SpecIds: collisions after normalisation                   *)
(***************************************************************************)

\* The positions of ids_raw whose raw identifier normalises to canonical.
PositionsOf(canonical) ==
    {i \in 1..Len(ids_raw) :
        validate_and_format_student_id(ids_raw[i].id) = Accepted(canonical)}

\* The canonical identifiers the raw identifiers of ids_raw normalise to.
CanonicalIds ==
    {validate_and_format_student_id(ids_raw[i].id).id :
        i \in 1..Len(ids_raw) \ InvalidPositions}

\* C26: identifier collisions overwrite silently, the last entry winning:
\* when every raw identifier is accepted, validate_all_student_ids returns
\* normally even if two distinct raw identifiers normalise to one canonical
\* identifier; the returned map has one entry per canonical identifier, with
\* the scores of the raw identifier visited last, and never more entries than
\* the input map.
C26_CollisionsKeepLast ==
    pc = "ids_validated" =>
        /\ ids_result.ok <=> InvalidPositions = {}
        /\ ids_result.ok =>
              /\ DOMAIN ids_result.value = CanonicalIds
              /\ \A k \in CanonicalIds :
                    ids_result.value[k] = ids_raw[Max(PositionsOf(k))].scores
              /\ Cardinality(DOMAIN ids_result.value) <= Len(ids_raw)

\* Two distinct raw identifiers with different scores normalise to one
\* identifier; the map returned holds the scores of the later one only.
C26_Witness ==
    /\ pc = "ids_validated"
    /\ ids_result.ok
    /\ \E k \in DOMAIN ids_result.value :
          \E i, j \in PositionsOf(k) :
             /\ i < j
             /\ j = Max(PositionsOf(k))
             /\ ids_raw[i].id # ids_raw[j].id
             /\ ids_raw[i].scores # ids_raw[j].scores
             /\ ids_result.value[k] = ids_raw[j].scores
    /\ Cardinality(DOMAIN ids_result.value) < Len(ids_raw)

(***************************************************************************)
(* Properties of SpecIds: the invalid examples of the error dialog         *)
(***************************************************************************)

\* The identifiers _show_student_id_error_dialog lists as invalid examples.
InvalidExamples == {"12345", "abc123", "hm123456"}

\* Letters followed by more than five digits, and nothing else.
LettersThenManyDigits(raw) ==
    \E k \in 1..Len(raw) :
        /\ \A i \in 1..k : AnyCaseLetter(SubSeq(raw, i, i))
        /\ \A i \in (k + 1)..Len(raw) : IsDigit(SubSeq(raw, i, i))
        /\ Len(raw) - k > 5

\* C27: the identifiers the student-ID error dialog lists as invalid examples
\* ("12345", "abc123", "hm123456") are rejected, and so is every identifier
\* made of letters followed by more than five digits: a map that holds one
\* of them makes validate_all_student_ids raise, and the identifier is among
\* those the error lists.
C27_InvalidExamplesRejected ==
    pc = "ids_validated" =>
        \A i \in 1..Len(ids_raw) :
            (ids_raw[i].id \in InvalidExamples \/ LettersThenManyDigits(ids_raw[i].id)) =>
                /\ ~ids_result.ok
                /\ ids_raw[i].id \in Members(ids_result.invalid_ids)

(***************************************************************************)
(* Properties of Spec: assessments of a CLO that has no definition row     *)
(***************************************************************************)

\* C28: a module assessment that names a CLO with no definition row is
\* tolerated: the extraction fails for no other reason than a row read
\* beyond the sheet or a rejected identifier; every CLO named by an
\* assessment is implicitly created, so that it is a key of the extracted
\* clos as well as of clo_assessments; and every student receives a score
\* for it.
C28_UndefinedCloCreated ==
    /\ pc = "failed" =>
          extraction.error = "IndexError" \/ extraction.invalid_ids # <<>>
    /\ pc \notin {"sheet", "failed"} =>
          \A clo \in DOMAIN clo_assessments :
              /\ clo \in DOMAIN clos
              /\ CloScoresComputed =>
                    \A sid \in DOMAIN student_scores :
                        clo \in DOMAIN clo_scores[sid]


====
